---- MODULE Spec2Model ----
(***************************************************************************)
(* A model of node-delta's tree module (lib/delta/tree.js, bundled in      *)
(* jmlpayload.js), the JsonML tree adapter (lib/delta/jmltree.js) and the  *)
(* JsonML operation handlers (lib/delta/jmlhandler.js).                    *)
(*                                                                         *)
(* JavaScript values are modelled as records of one shape, so that the     *)
(* strict equality === of the source is record equality here:              *)
(*   a string is equal to a string with the same characters,               *)
(*   an array is equal to itself only (r is its address in heap),          *)
(*   undefined is equal to undefined.                                      *)
(***************************************************************************)
EXTENDS Integers, Sequences, FiniteSets, TLC

VARIABLES
    tree,      \* the tree.Node objects, by address (1..Len(tree))
    heap,      \* the JsonML arrays, by address: heap[r] is the array's items
    doc,       \* the JsonML document the hunks are attached to
    orig,      \* history: the serialization of doc before any hunk acted
    hunks,     \* the operation handlers created by the factory, in order
    session,   \* history: the activate/deactivate discipline followed so far
    last,      \* history: the last call made and how it ended
    docindex,  \* the DocumentOrderIndex object
    genindex,  \* the GenerationIndex object
    hashing,   \* the hash algorithm in use; history: the calls of the
               \* hashing protocols, per node
    delta,     \* the operations of the delta a patch is written from
    patch,     \* the JsonML patch document, by value
    cli        \* the run of the diff command: its arguments and its position

vars == <<tree, heap, doc, orig, hunks, session, last, docindex, genindex,
          hashing, delta, patch, cli>>

----------------------------------------------------------------------------
(* Bounds of the model *)

\* tree.Node objects a behaviour of SpecTree constructs
MaxNodes == 3

\* operation handlers a patching session creates
MaxHunks == 2

\* largest remove length of a forest update
MaxRemove == 1

\* nodes a client constructs after the document is loaded
MaxLateNodes == 1

\* largest offset passed to DocumentOrderIndex.get, in either direction
MaxOffset == 2

\* calls of GenerationIndex.buildAll that end in an exception, each leaving
\* the index with one more entry for the root
MaxFailedBuilds == 2

----------------------------------------------------------------------------
(* JavaScript values *)

Undefined == [k |-> "undef", s |-> "", r |-> 0, a |-> <<>>]

Str(s) == [k |-> "str", s |-> s, r |-> 0, a |-> <<>>]

Arr(r) == [k |-> "arr", s |-> "", r |-> r, a |-> <<>>]

\* an attributes object; a is its (key, value) pairs in enumeration order
Attrs(a) == [k |-> "attrs", s |-> "", r |-> 0, a |-> a]

\* a tree.Node reference that is undefined (par of a root, a missing base)
NoNode == 0

\* a child index that is undefined (childidx of a root, a missing index)
NoIndex == -1

\* a hash value that is not there (a cache property the node does not own)
NoHash == <<>>

\* JavaScript truthiness of a value: undefined and '' are falsy
Truthy(v) == v.k # "undef" /\ ~(v.k = "str" /\ v.s = "")

----------------------------------------------------------------------------
(* tree.Node: jmlpayload.js 102-127 *)

\* new Node(value, data).  The fields after children are the properties the
\* matching, the indexes and the hash caches set on a node under their
\* default property names; NoNode, NoIndex and NoHash stand for a property
\* the node does not own.
Node(value, data) ==
    [value |-> value, data |-> data, depth |-> 0,
     par |-> NoNode, childidx |-> NoIndex, children |-> <<>>,
     currentJMLNode |-> Undefined,
     partner |-> NoNode, docorderidx |-> NoIndex, gencacheidx |-> NoIndex,
     nodehash |-> NoHash, treehash |-> NoHash]

\* Node.prototype.append without its check for an existing parent (a faulty
\* variant, used to show that C8 depends on the check)
AppendUnchecked(t, p, c) ==
    [thrown |-> FALSE,
     tree |-> [[t EXCEPT ![c].depth = t[p].depth + 1,
                         ![c].par = p,
                         ![c].childidx = Len(t[p].children)]
                  EXCEPT ![p].children = Append(@, c)]]

\* Node.prototype.append with childidx read after the push (a faulty
\* variant, used to show that C10 depends on the order of the assignments)
AppendIndexAfterPush(t, p, c) ==
    IF t[c].par # NoNode
    THEN [thrown |-> TRUE, tree |-> t]
    ELSE [thrown |-> FALSE,
          tree |-> [[t EXCEPT ![c].depth = t[p].depth + 1,
                              ![c].par = p,
                              ![c].childidx = Len(t[p].children) + 1]
                       EXCEPT ![p].children = Append(@, c)]]

\* Node.prototype.append: this = t[p], child = t[c].  The assignments are
\* made in the source's order, so that p = c reads this.depth and
\* this.children.length as the source does.
NodeAppend(t, p, c) ==
    IF t[c].par # NoNode
    THEN [thrown |-> TRUE, tree |-> t]
    ELSE LET t1 == [t EXCEPT ![c].depth = t[p].depth + 1]
             t2 == [t1 EXCEPT ![c].par = p]
             t3 == [t2 EXCEPT ![c].childidx = Len(t2[p].children)]
             t4 == [t3 EXCEPT ![p].children = Append(@, c)]
         IN [thrown |-> FALSE, tree |-> t4]

----------------------------------------------------------------------------
(* JsonML utilities: part_003 38-118, 235-275 *)

\* JsonML.isElement: an array whose first item is a string
IsElement(h, jml) ==
    jml.k = "arr" /\ Len(h[jml.r]) >= 1 /\ h[jml.r][1].k = "str"

\* JsonML.hasAttributes, for an element: the second item is an attributes object
HasAttributes(h, jml) ==
    Len(h[jml.r]) >= 2 /\ h[jml.r][2].k = "attrs"

\* JsonML.getTagName: jml[0] || ''
GetTagName(h, jml) == h[jml.r][1].s

\* eachChild starting after the tag name whatever follows (a faulty variant:
\* the attributes object is visited as a child)
ChildStartAfterTag(h, jml) == Len(<<GetTagName(h, jml)>>)

\* JsonML.eachChild: the first position (counted from 0) that holds a child
ChildStart(h, jml) == IF HasAttributes(h, jml) THEN 2 ELSE 1

\* JsonML.clone(jml, false): a new array with the tag and, when the element
\* has attributes, a new attributes object with the same pairs in the same
\* order; a text is copied as a string.  The new array gets the next address.
Clone(h, jml) ==
    IF IsElement(h, jml)
    THEN LET tag == Str(GetTagName(h, jml))
             attrs == IF HasAttributes(h, jml) THEN h[jml.r][2].a ELSE <<>>
             cloned == IF attrs # <<>> THEN <<tag, Attrs(attrs)>> ELSE <<tag>>
         IN [heap |-> Append(h, cloned), val |-> Arr(Len(h) + 1)]
    ELSE [heap |-> h, val |-> Str(jml.s)]

\* JMLPayloadHandler.serializeToString: JSON.stringify, as the sequence of
\* its tokens
RECURSIVE Serialize(_, _)
RECURSIVE SerializeItems(_, _, _)
RECURSIVE SerializePairs(_, _)
Serialize(h, v) ==
    CASE v.k = "str" -> <<v.s>>
      [] v.k = "attrs" -> <<"{">> \o SerializePairs(v.a, 1) \o <<"}">>
      [] v.k = "arr" -> <<"[">> \o SerializeItems(h, h[v.r], 1) \o <<"]">>
      [] OTHER -> <<"null">>

SerializeItems(h, items, i) ==
    IF i > Len(items) THEN <<>>
    ELSE Serialize(h, items[i]) \o SerializeItems(h, items, i + 1)

SerializePairs(pairs, i) ==
    IF i > Len(pairs) THEN <<>>
    ELSE <<pairs[i][1], ":", pairs[i][2]>> \o SerializePairs(pairs, i + 1)

----------------------------------------------------------------------------
(* JMLTreeAdapter: jmltree.js 23-54 *)

\* mapjml with adapt's callback: wrap node, append the wrapper to the
\* parent's wrapper, then visit the children of an element in order
RECURSIVE MapJml(_, _, _, _)
RECURSIVE MapJmlChildren(_, _, _, _, _)
MapJml(t, h, node, presult) ==
    LET content == IF IsElement(h, node) THEN GetTagName(h, node) ELSE node.s
        result == Len(t) + 1
        t1 == Append(t, Node(content, node))
        t2 == IF presult # NoNode THEN NodeAppend(t1, presult, result).tree
              ELSE t1
    IN IF IsElement(h, node)
       THEN MapJmlChildren(t2, h, node, ChildStart(h, node), result)
       ELSE t2

MapJmlChildren(t, h, node, i, result) ==
    IF i >= Len(h[node.r]) THEN t
    ELSE MapJmlChildren(MapJml(t, h, h[node.r][i + 1], result),
                        h, node, i + 1, result)

\* JMLTreeAdapter.prototype.adapt: the wrapper of element is node 1
Adapt(h, element) == MapJml(<<>>, h, element, NoNode)

----------------------------------------------------------------------------
(* tree.Anchor: jmlpayload.js 698-718 *)

ChildAt(t, base, index) ==
    IF index >= 0 /\ index < Len(t[base].children)
    THEN t[base].children[index + 1]
    ELSE NoNode

\* Anchor with this.index = index in the node form (a faulty variant: the
\* anchor of a node loses the node's child index)
AnchorWithoutChildIndex(t, root, base, index) ==
    IF root = NoNode
    THEN [thrown |-> TRUE, base |-> NoNode, target |-> NoNode, index |-> NoIndex]
    ELSE IF base = NoNode \/ (root = base /\ index = NoIndex)
    THEN [thrown |-> FALSE, base |-> NoNode, target |-> root, index |-> NoIndex]
    ELSE IF index = NoIndex
    THEN [thrown |-> FALSE, base |-> t[base].par, target |-> base,
          index |-> index]
    ELSE [thrown |-> FALSE, base |-> base, target |-> ChildAt(t, base, index),
          index |-> index]

Anchor(t, root, base, index) ==
    IF root = NoNode
    THEN [thrown |-> TRUE, base |-> NoNode, target |-> NoNode, index |-> NoIndex]
    ELSE IF base = NoNode \/ (root = base /\ index = NoIndex)
    THEN [thrown |-> FALSE, base |-> NoNode, target |-> root, index |-> NoIndex]
    ELSE IF index = NoIndex
    THEN [thrown |-> FALSE, base |-> t[base].par, target |-> base,
          index |-> t[base].childidx]
    ELSE [thrown |-> FALSE, base |-> base, target |-> ChildAt(t, base, index),
          index |-> index]

----------------------------------------------------------------------------
(* JMLOperationNodeDataMap: part_003 297-315 *)

\* getCurrentJMLNode: node && (node[this.propname] || node.data)
GetCurrentJMLNode(t, node) ==
    IF node = NoNode THEN Undefined
    ELSE IF Truthy(t[node].currentJMLNode) THEN t[node].currentJMLNode
    ELSE t[node].data

\* setCurrentJMLNode
SetCurrentJMLNode(t, node, domnode) ==
    [t EXCEPT ![node].currentJMLNode = domnode]

----------------------------------------------------------------------------
(* Operation handlers: part_003 321-493 *)

\* The value of this.state: a property never assigned reads undefined.
\* !state of the source
Negate(state) == IF state = "true" THEN "false" ELSE "true"

\* One record shape for both handler classes.  at and len are the anchor and
\* the remove length of the operation the handler was created for (kept by
\* the attached operation, not by the handler).
Handler(kind, par, before, oldnodes, newnodes, anchor, orignode, changednode, state, at, len) ==
    [kind |-> kind, par |-> par, before |-> before, oldnodes |-> oldnodes,
     newnodes |-> newnodes, anchor |-> anchor, orignode |-> orignode,
     changednode |-> changednode, state |-> state, at |-> at, len |-> len]

\* new JMLNodeReplaceOperationHandler: changednode.firstChild is undefined
\* for a JsonML value, so the loop removes nothing; state = false
JMLNodeReplaceOperationHandler(anchor, orignode, changednode, at) ==
    Handler("node", NoNode, NoNode, <<>>, <<>>, anchor, orignode, changednode,
            "false", at, 1)

\* new JMLTreeSequenceOperationHandler: state is not assigned
JMLTreeSequenceOperationHandler(par, before, oldnodes, newnodes, at, len) ==
    Handler("forest", par, before, oldnodes, newnodes, NoNode, Undefined,
            Undefined, "undefined", at, len)

\* the property ownerDocument of a JsonML value (a string or an array): there
\* is none
OwnerDocument(v) == Undefined

\* JMLNodeReplaceOperationHandler.prototype.toggle.  Reading documentElement
\* of an undefined ownerDocument is a TypeError, thrown before anything is
\* changed.
NodeReplaceToggle(t, h, hk) ==
    LET fromnode == IF hk.state = "true" THEN hk.changednode ELSE hk.orignode
        tonode == IF hk.state = "true" THEN hk.orignode ELSE hk.changednode
    IN IF OwnerDocument(fromnode) = Undefined
       THEN [thrown |-> TRUE, heap |-> h, tree |-> t, state |-> hk.state]
       ELSE [thrown |-> FALSE, heap |-> h,
             tree |-> SetCurrentJMLNode(t, hk.anchor, tonode),
             state |-> Negate(hk.state)]

\* findChild of toggle: the position (from 0) of the first item === child,
\* 0 for an undefined child, -1 for the throw "Child not found!!"
FindChild(items, child) ==
    IF child = Undefined THEN 0
    ELSE IF \E i \in 1..Len(items) : items[i] = child
    THEN (CHOOSE i \in 1..Len(items) :
              items[i] = child /\ \A j \in 1..(i - 1) : items[j] # child) - 1
    ELSE -1

\* Array.prototype.splice(i, 1)
SpliceOut(items, i) ==
    SubSeq(items, 1, i) \o SubSeq(items, i + 2, Len(items))

\* Array.prototype.splice(i, 0, item)
SpliceIn(items, i, item) ==
    SubSeq(items, 1, i) \o <<item>> \o SubSeq(items, i + 1, Len(items))

\* removeChild of toggle, on the array at address r
RemoveChild(h, r, child) ==
    LET i == FindChild(h[r], child)
    IN IF i < 0 THEN [thrown |-> TRUE, heap |-> h]
       ELSE [thrown |-> FALSE, heap |-> [h EXCEPT ![r] = SpliceOut(@, i)]]

\* insertBefore of toggle: node.splice(i, 0, [newone]) inserts a new array
\* holding newone
InsertBefore(h, r, newone, before) ==
    LET i == FindChild(h[r], before)
        wrapper == Len(h) + 1
    IN IF i < 0 THEN [thrown |-> TRUE, heap |-> h]
       ELSE [thrown |-> FALSE,
             heap |-> Append([h EXCEPT ![r] = SpliceIn(@, i, Arr(wrapper))],
                             <<newone>>)]

\* the two loops of toggle; a throw ends them and keeps what was done so far
RECURSIVE RemoveEach(_, _, _, _)
RemoveEach(h, r, remove, i) ==
    IF i > Len(remove) THEN [thrown |-> FALSE, heap |-> h]
    ELSE LET res == RemoveChild(h, r, remove[i])
         IN IF res.thrown THEN res ELSE RemoveEach(res.heap, r, remove, i + 1)

RECURSIVE InsertEach(_, _, _, _, _)
InsertEach(h, r, insert, before, i) ==
    IF i > Len(insert) THEN [thrown |-> FALSE, heap |-> h]
    ELSE LET res == InsertBefore(h, r, insert[i], before)
         IN IF res.thrown THEN res
            ELSE InsertEach(res.heap, r, insert, before, i + 1)

\* JMLTreeSequenceOperationHandler.prototype.toggle.  When the current
\* payload of par is a string, findChild throws or splice is not a function:
\* the call throws with nothing changed.
TreeSequenceToggle(t, h, hk) ==
    LET remove == IF hk.state = "true" THEN hk.newnodes ELSE hk.oldnodes
        insert == IF hk.state = "true" THEN hk.oldnodes ELSE hk.newnodes
        node == GetCurrentJMLNode(t, hk.par)
        before == GetCurrentJMLNode(t, hk.before)
    IN IF node.k # "arr"
       THEN [thrown |-> TRUE, heap |-> h, tree |-> t, state |-> hk.state]
       ELSE LET removed == RemoveEach(h, node.r, remove, 1)
                done == IF removed.thrown THEN removed
                        ELSE InsertEach(removed.heap, node.r, insert, before, 1)
            IN [thrown |-> done.thrown, heap |-> done.heap, tree |-> t,
                state |-> IF done.thrown THEN hk.state ELSE Negate(hk.state)]

\* toggle of either class
HandlerToggle(t, h, hk) ==
    IF hk.kind = "node" THEN NodeReplaceToggle(t, h, hk)
    ELSE TreeSequenceToggle(t, h, hk)

\* isActive of either class: this.state as it is
IsActive(hk) == hk.state

\* activate of either class: if (!this.state) this.toggle()
HandlerActivate(t, h, hk) ==
    IF hk.state # "true" THEN HandlerToggle(t, h, hk)
    ELSE [thrown |-> FALSE, heap |-> h, tree |-> t, state |-> hk.state]

\* deactivate of either class: if (this.state) this.toggle()
HandlerDeactivate(t, h, hk) ==
    IF hk.state = "true" THEN HandlerToggle(t, h, hk)
    ELSE [thrown |-> FALSE, heap |-> h, tree |-> t, state |-> hk.state]

----------------------------------------------------------------------------
(* JMLOperationHandlerFactory: part_003 500-584 *)

NoHandler ==
    Handler("none", NoNode, NoNode, <<>>, <<>>, NoNode, Undefined, Undefined,
            "undefined", Anchor(<<>>, NoNode, NoNode, NoIndex), 0)

\* the data of the children i..end-1 (from 0) of node
RECURSIVE ChildData(_, _, _, _)
ChildData(t, node, i, end) ==
    IF i >= end THEN <<>>
    ELSE <<t[t[node].children[i + 1]].data>> \o ChildData(t, node, i + 1, end)

\* the data of each node of a list of (detached) replacement nodes
NodeData(nodes) == [i \in 1..Len(nodes) |-> nodes[i].data]

\* createNodeUpdateOperationHandler; newnode is <<>> when insert[0] is
\* undefined, and reading its data is then a TypeError
CreateNodeUpdateOperationHandler(t, h, anchor, newnode) ==
    IF anchor.target = NoNode \/ newnode = <<>>
    THEN [thrown |-> TRUE, heap |-> h, handler |-> NoHandler]
    ELSE LET oldnode == anchor.target
             remove == t[oldnode].data
             insert == Clone(h, newnode[1].data)
         IN [thrown |-> FALSE, heap |-> insert.heap,
             handler |-> JMLNodeReplaceOperationHandler(
                             oldnode, remove, insert.val, anchor)]

\* createForestUpdateOperationHandler without the test for at least one
\* node (a faulty variant: a handler that removes and inserts nothing)
CreateForestUpdateUnchecked(t, h, anchor, length, replacement) ==
    LET node == anchor.base
        start == anchor.index
    IN IF \/ node = NoNode
          \/ start = NoIndex
          \/ (length > 0 /\ start + length > Len(t[node].children))
       THEN [thrown |-> TRUE, heap |-> h, handler |-> NoHandler]
       ELSE [thrown |-> FALSE, heap |-> h,
             handler |-> JMLTreeSequenceOperationHandler(
                             node, ChildAt(t, node, start + length),
                             ChildData(t, node, start, start + length),
                             NodeData(replacement), anchor, length)]

\* createForestUpdateOperationHandler; node.children[i].data of a missing
\* child is a TypeError
CreateForestUpdateOperationHandler(t, h, anchor, length, replacement) ==
    LET node == anchor.base
        start == anchor.index
    IN IF \/ node = NoNode
          \/ start = NoIndex
          \/ (length = 0 /\ Len(replacement) = 0)
          \/ (length > 0 /\ start + length > Len(t[node].children))
       THEN [thrown |-> TRUE, heap |-> h, handler |-> NoHandler]
       ELSE [thrown |-> FALSE, heap |-> h,
             handler |-> JMLTreeSequenceOperationHandler(
                             node, ChildAt(t, node, start + length),
                             ChildData(t, node, start, start + length),
                             NodeData(replacement), anchor, length)]

\* createOperationHandler(anchor, type, path, remove, insert); of remove only
\* the length is read
CreateOperationHandler(t, h, anchor, type, removeLength, insert) ==
    CASE type = "UPDATE_FOREST_TYPE" ->
            CreateForestUpdateOperationHandler(t, h, anchor, removeLength, insert)
      [] type = "UPDATE_NODE_TYPE" ->
            CreateNodeUpdateOperationHandler(
                t, h, anchor, IF insert = <<>> THEN <<>> ELSE <<insert[1]>>)
      [] OTHER -> [thrown |-> TRUE, heap |-> h, handler |-> NoHandler]

----------------------------------------------------------------------------
(* tree.Matching: jmlpayload.js 192-220, with the default property name *)

\* Matching.prototype.get: obj && obj[this.propname]
MatchingGet(t, obj) == IF obj = NoNode THEN NoNode ELSE t[obj].partner

\* Matching.prototype.put without its check (a faulty variant: a node that
\* has a partner is given another one)
PutUnchecked(t, a, b) ==
    IF a = NoNode \/ b = NoNode
    THEN [thrown |-> TRUE, tree |-> t]
    ELSE [thrown |-> FALSE,
          tree |-> [[t EXCEPT ![a].partner = b] EXCEPT ![b].partner = a]]

\* Matching.prototype.put without its second assignment (a faulty variant:
\* b does not learn of a)
PutOneWay(t, a, b) ==
    IF a = NoNode \/ b = NoNode
    THEN [thrown |-> TRUE, tree |-> t]
    ELSE IF t[a].partner # NoNode \/ t[b].partner # NoNode
    THEN [thrown |-> TRUE, tree |-> t]
    ELSE [thrown |-> FALSE, tree |-> [t EXCEPT ![a].partner = b]]

\* Matching.prototype.put.  Reading a property of undefined throws a
\* TypeError; a partner is a node object and so truthy.
MatchingPut(t, a, b) ==
    IF a = NoNode \/ b = NoNode
    THEN [thrown |-> TRUE, tree |-> t]
    ELSE IF t[a].partner # NoNode \/ t[b].partner # NoNode
    THEN [thrown |-> TRUE, tree |-> t]
    ELSE LET t1 == [t EXCEPT ![a].partner = b]
             t2 == [t1 EXCEPT ![b].partner = a]
         IN [thrown |-> FALSE, tree |-> t2]

----------------------------------------------------------------------------
(* Node.prototype.forEach: jmlpayload.js 139-144 *)

\* the nodes the callback is invoked for, in the order of the invocations
RECURSIVE ForEach(_, _)
RECURSIVE ForEachChild(_, _, _)
ForEach(t, n) == <<n>> \o ForEachChild(t, t[n].children, 1)

ForEachChild(t, children, i) ==
    IF i > Len(children) THEN <<>>
    ELSE ForEach(t, children[i]) \o ForEachChild(t, children, i + 1)

\* forEach returns: no node below n has n below it.  (On a cycle the
\* recursion does not end.)
RECURSIVE Reaches(_, _, _, _)
Reaches(t, from, to, fuel) ==
    \/ from = to
    \/ /\ fuel > 0
       /\ \E i \in 1..Len(t[from].children) :
             Reaches(t, t[from].children[i], to, fuel - 1)

ForEachReturns(t, n) ==
    \A m \in 1..Len(t) :
        Reaches(t, n, m, Len(t)) =>
            \A i \in 1..Len(t[m].children) :
                ~Reaches(t, t[m].children[i], m, Len(t))

----------------------------------------------------------------------------
(* tree.DocumentOrderIndex: jmlpayload.js 457-539 *)

\* new DocumentOrderIndex(root)
DocumentOrderIndex(root) ==
    [root |-> root, idxcomplete |-> FALSE, nodes |-> <<>>]

\* no index constructed yet
NoDocumentOrderIndex == DocumentOrderIndex(NoNode)

\* the callback of buildAll, applied to the nodes of order from the i-th on
RECURSIVE DocumentOrderIndexEach(_, _, _, _)
DocumentOrderIndexEach(t, idx, order, i) ==
    IF i > Len(order) THEN [tree |-> t, index |-> idx]
    ELSE DocumentOrderIndexEach(
             [t EXCEPT ![order[i]].docorderidx = Len(idx.nodes)],
             [idx EXCEPT !.nodes = Append(@, order[i])], order, i + 1)

\* DocumentOrderIndex.prototype.buildAll without its idxcomplete test (a
\* faulty variant: every call walks the tree again)
DocumentOrderIndexBuildAlways(t, idx) ==
    LET built == DocumentOrderIndexEach(t, idx, ForEach(t, idx.root), 1)
    IN [tree |-> built.tree,
        index |-> [built.index EXCEPT !.idxcomplete = TRUE]]

\* DocumentOrderIndex.prototype.buildAll
DocumentOrderIndexBuildAll(t, idx) ==
    IF ~idx.idxcomplete
    THEN LET built == DocumentOrderIndexEach(t, idx, ForEach(t, idx.root), 1)
         IN [tree |-> built.tree,
             index |-> [built.index EXCEPT !.idxcomplete = TRUE]]
    ELSE [tree |-> t, index |-> idx]

\* offset || 0, for an offset given as <<k>> or left out (<<>>)
OffsetOrZero(offset) == IF offset = <<>> THEN 0 ELSE offset[1]

\* DocumentOrderIndex.prototype.get without the default for offset (a
\* faulty variant: refindex + undefined is NaN, which fails both comparisons)
DocumentOrderIndexGetNoDefault(t, idx, refnode, offset) ==
    LET refindex == t[refnode].docorderidx
    IN IF refnode = NoNode THEN [thrown |-> TRUE, node |-> NoNode]
       ELSE IF refindex # NoIndex
                 /\ (refindex >= Len(idx.nodes)
                        \/ idx.nodes[refindex + 1] # refnode)
       THEN [thrown |-> TRUE, node |-> NoNode]
       ELSE IF refindex # NoIndex /\ offset # <<>> /\ refindex + offset[1] < 0
       THEN [thrown |-> FALSE, node |-> NoNode]
       ELSE IF refindex # NoIndex /\ offset # <<>>
                 /\ refindex + offset[1] < Len(idx.nodes)
       THEN [thrown |-> FALSE, node |-> idx.nodes[refindex + offset[1] + 1]]
       ELSE [thrown |-> ~idx.idxcomplete, node |-> NoNode]

\* DocumentOrderIndex.prototype.get.  refnode undefined: the property read
\* throws a TypeError.
DocumentOrderIndexGet(t, idx, refnode, offset) ==
    LET off == OffsetOrZero(offset)
        refindex == t[refnode].docorderidx
    IN IF refnode = NoNode THEN [thrown |-> TRUE, node |-> NoNode]
       ELSE IF refindex # NoIndex
                 /\ (refindex >= Len(idx.nodes)
                        \/ idx.nodes[refindex + 1] # refnode)
       THEN [thrown |-> TRUE, node |-> NoNode]
       ELSE IF refindex # NoIndex /\ refindex + off < 0
       THEN [thrown |-> FALSE, node |-> NoNode]
       ELSE IF refindex # NoIndex /\ refindex + off < Len(idx.nodes)
       THEN [thrown |-> FALSE, node |-> idx.nodes[refindex + off + 1]]
       ELSE [thrown |-> ~idx.idxcomplete, node |-> NoNode]

----------------------------------------------------------------------------
(* tree.GenerationIndex: jmlpayload.js 248-315 *)

\* new GenerationIndex(root)
GenerationIndex(root) ==
    [root |-> root, idxcomplete |-> FALSE, generations |-> <<>>,
     gencomplete |-> <<>>]

\* no index constructed yet
NoGenerationIndex == GenerationIndex(NoNode)

\* this.gencomplete[depth] = true
SetComplete(gencomplete, depth) ==
    IF depth < Len(gencomplete) THEN [gencomplete EXCEPT ![depth + 1] = TRUE]
    ELSE Append(gencomplete, TRUE)

\* GenerationIndex.prototype.buildSubtree(root): the body, applied to the
\* nodes in the order of the recursion (order, from the i-th on).  When
\* generations[depth] is undefined, reading its length throws a TypeError
\* and the walk ends with what was written so far.
RECURSIVE BuildSubtree(_, _, _, _)
BuildSubtree(t, idx, order, i) ==
    IF i > Len(order) THEN [thrown |-> FALSE, tree |-> t, index |-> idx]
    ELSE LET node == order[i]
             depth == t[node].depth - t[idx.root].depth
             fresh == Len(idx.generations) = depth
             generations == IF fresh THEN Append(idx.generations, <<>>)
                            ELSE idx.generations
             gencomplete == IF fresh THEN SetComplete(idx.gencomplete, depth)
                            ELSE idx.gencomplete
         IN IF depth < 0 \/ depth >= Len(generations)
            THEN [thrown |-> TRUE, tree |-> t, index |-> idx]
            ELSE BuildSubtree(
                     [t EXCEPT ![node].gencacheidx = Len(generations[depth + 1])],
                     [idx EXCEPT !.generations =
                                     [generations EXCEPT ![depth + 1] = Append(@, node)],
                                 !.gencomplete = gencomplete],
                     order, i + 1)

\* GenerationIndex.prototype.buildAll
GenerationIndexBuildAll(t, idx) ==
    IF ~idx.idxcomplete
    THEN LET built == BuildSubtree(t, idx, ForEach(t, idx.root), 1)
         IN IF built.thrown THEN built
            ELSE [thrown |-> FALSE, tree |-> built.tree,
                  index |-> [built.index EXCEPT
                                !.gencomplete = [d \in DOMAIN @ |-> TRUE],
                                !.idxcomplete = TRUE]]
    ELSE [thrown |-> FALSE, tree |-> t, index |-> idx]

----------------------------------------------------------------------------
(* fnv132.Hash: 32-bit FNV-1a.  A hash value is the pair <<hi, lo>> of its  *)
(* upper and lower 16 bits.                                                 *)

\* the UTF-8 bytes of the strings that occur in the documents
Utf8 ==
    [s \in {"", "1", "a", "b", "c", "t", "u", "x", "id", "href",
            "bfvfsz", "emlncn", "mbu", "atgh"} |->
        CASE s = "" -> <<>>
          [] s = "1" -> <<49>>
          [] s = "a" -> <<97>>
          [] s = "b" -> <<98>>
          [] s = "c" -> <<99>>
          [] s = "t" -> <<116>>
          [] s = "u" -> <<117>>
          [] s = "x" -> <<120>>
          [] s = "id" -> <<105, 100>>
          [] s = "href" -> <<104, 114, 101, 102>>
          [] s = "bfvfsz" -> <<98, 102, 118, 102, 115, 122>>
          [] s = "emlncn" -> <<101, 109, 108, 110, 99, 110>>
          [] s = "mbu" -> <<109, 98, 117>>
          [] s = "atgh" -> <<97, 116, 103, 104>>]

\* the bitwise exclusive or of two numbers of n bits
RECURSIVE Xor(_, _, _)
Xor(x, y, n) ==
    IF n = 0 THEN 0
    ELSE (((x % 2) + (y % 2)) % 2) + 2 * Xor(x \div 2, y \div 2, n - 1)

\* the exclusive or of two numbers of 4 bits, tabulated
Xor4 == [x \in 0..15 |-> [y \in 0..15 |-> Xor(x, y, 4)]]

\* the exclusive or of two bytes
Xor8(x, y) == 16 * Xor4[x \div 16][y \div 16] + Xor4[x % 16][y % 16]

\* the offset basis 0x811C9DC5
FnvOffset == <<33052, 40389>>

\* the prime 0x01000193 is 2^24 + FnvPrimeLow
FnvPrimeLow == 403

\* one byte: hash = (hash ^ byte) * prime mod 2^32
FnvByte(hash, byte) ==
    LET lo == (hash[2] \div 256) * 256 + Xor8(hash[2] % 256, byte)
        product == lo * FnvPrimeLow
    IN <<(hash[1] * FnvPrimeLow + (product \div 65536) + (lo % 256) * 256) % 65536,
         product % 65536>>

\* the hash algorithms handed to JMLNodeHash and SimpleTreeHash: fnv132.Hash,
\* and "zero", a HashAlgorithm whose digest is 0 whatever it is fed
\* new HashAlgorithm()
HashNew(algorithm) == IF algorithm = "fnv132" THEN FnvOffset ELSE <<0, 0>>

\* hash.update(bytes), for the bytes from the i-th on; hash is the state of
\* the hash object, two halves of 16 bits
RECURSIVE HashUpdate(_, _, _, _)
HashUpdate(algorithm, hash, bytes, i) ==
    IF Len(hash) # 2 \/ algorithm # "fnv132" \/ i > Len(bytes) THEN hash
    ELSE HashUpdate(algorithm, FnvByte(hash, bytes[i]), bytes, i + 1)

\* hash.update(number): the four bytes of the number, the highest first
NumberBytes(number) ==
    <<number[1] \div 256, number[1] % 256, number[2] \div 256, number[2] % 256>>

\* hash.update for each of a sequence of updates
RECURSIVE HashUpdateAll(_, _, _, _)
HashUpdateAll(algorithm, hash, updates, i) ==
    IF Len(hash) # 2 \/ i > Len(updates) THEN hash
    ELSE HashUpdateAll(algorithm, HashUpdate(algorithm, hash, updates[i], 1),
                       updates, i + 1)

----------------------------------------------------------------------------
(* JMLNodeHash: jmltree.js 60-120 *)

ELEMENT_PREFIX == <<0, 0, 0, 1>>

ATTRIBUTE_PREFIX == <<0, 0, 0, 2>>

TEXT_PREFIX == <<0, 0, 0, 3>>

SEPARATOR == <<0, 0>>

\* the order of Array.prototype.sort on strings: by code units, a proper
\* prefix first
RECURSIVE BytesLess(_, _, _)
BytesLess(x, y, i) ==
    IF i > Len(y) THEN FALSE
    ELSE IF i > Len(x) THEN TRUE
    ELSE IF x[i] # y[i] THEN x[i] < y[i]
    ELSE BytesLess(x, y, i + 1)

\* keys with key put in its place, keys being sorted
RECURSIVE InsertSorted(_, _)
InsertSorted(keys, key) ==
    IF keys = <<>> THEN <<key>>
    ELSE IF BytesLess(Utf8[key], Utf8[keys[1]], 1) THEN <<key>> \o keys
    ELSE <<keys[1]>> \o InsertSorted(Tail(keys), key)

\* attrqns.sort()
RECURSIVE Sort(_)
Sort(keys) ==
    IF keys = <<>> THEN <<>> ELSE InsertSorted(Sort(Tail(keys)), keys[1])

\* attrqns after eachAttribute: every key was put in front (unshift)
RECURSIVE Unshifted(_)
Unshifted(pairs) ==
    IF pairs = <<>> THEN <<>>
    ELSE Unshifted(Tail(pairs)) \o <<pairs[1][1]>>

\* attrnodes[qn]
AttrNode(pairs, qn) ==
    pairs[CHOOSE i \in 1..Len(pairs) : pairs[i][1] = qn][2]

\* processAttribute for each of attrqns, from the i-th on: the updates made
RECURSIVE ProcessAttributes(_, _, _)
ProcessAttributes(pairs, attrqns, i) ==
    IF i > Len(attrqns) THEN <<>>
    ELSE <<ATTRIBUTE_PREFIX, Utf8[attrqns[i]], SEPARATOR,
           Utf8[AttrNode(pairs, attrqns[i])]>>
             \o ProcessAttributes(pairs, attrqns, i + 1)

\* processElement without the sort (a faulty variant: the attributes are fed
\* in the order attrqns has after the unshifts)
ProcessElementUnsorted(h, jmlnode) ==
    <<ELEMENT_PREFIX, Utf8[GetTagName(h, jmlnode)], SEPARATOR>>
        \o (IF HasAttributes(h, jmlnode)
            THEN ProcessAttributes(h[jmlnode.r][2].a,
                                   Unshifted(h[jmlnode.r][2].a), 1)
            ELSE <<>>)

\* JMLNodeHash.prototype.processElement: the updates it makes, in order
ProcessElement(h, jmlnode) ==
    <<ELEMENT_PREFIX, Utf8[GetTagName(h, jmlnode)], SEPARATOR>>
        \o (IF HasAttributes(h, jmlnode)
            THEN ProcessAttributes(h[jmlnode.r][2].a,
                                   Sort(Unshifted(h[jmlnode.r][2].a)), 1)
            ELSE <<>>)

\* JMLNodeHash.prototype.processText
ProcessText(jmlnode) == <<TEXT_PREFIX, Utf8[jmlnode.s]>>

\* JMLNodeHash.prototype.process(node), node a tree.Node record
JMLNodeHashProcess(algorithm, h, node) ==
    HashUpdateAll(algorithm, HashNew(algorithm),
                  IF IsElement(h, node.data) THEN ProcessElement(h, node.data)
                  ELSE ProcessText(node.data), 1)

----------------------------------------------------------------------------
(* tree.NodeHashIndex, tree.SimpleTreeHash, tree.TreeHashIndex:             *)
(* jmlpayload.js 577-669.  hs is the hashing state: the algorithm and, as   *)
(* history, how often nodehash.process and treehash.process were called for *)
(* each node.                                                               *)

\* no hash algorithm chosen, no hashing protocol called
NoHashing == [algorithm |-> "none", nodecalls |-> <<>>, treecalls |-> <<>>]

\* no delta has been computed
NoDelta == <<>>

\* undefined, among the values of a patch document (see JsString below)
JsUndefined == [k |-> "undef", s |-> <<>>, c |-> <<>>, n |-> 0]

\* no patch document has been created
NoPatch == JsUndefined

\* the diff command has not been started
NoRun == [pc |-> "idle"]

\* node[this.propname] = value, value being what nodehash.process(node)
\* returned
NodeHashStore(t, hs, node, value) ==
    [tree |-> [t EXCEPT ![node].nodehash = value],
     hashing |-> [hs EXCEPT !.nodecalls[node] = @ + 1],
     value |-> value]

\* NodeHashIndex.prototype.get with a test for a truthy cached value in
\* place of hasOwnProperty (a faulty variant: a cached 0 is computed again)
NodeHashIndexGetTruthy(t, hs, h, node) ==
    IF node = NoNode THEN [tree |-> t, hashing |-> hs, value |-> NoHash]
    ELSE IF t[node].nodehash \in {NoHash, <<0, 0>>}
    THEN NodeHashStore(t, hs, node, JMLNodeHashProcess(hs.algorithm, h, t[node]))
    ELSE [tree |-> t, hashing |-> hs, value |-> t[node].nodehash]

\* NodeHashIndex.prototype.get; get(undefined) returns undefined (NoHash)
NodeHashIndexGet(t, hs, h, node) ==
    IF node = NoNode THEN [tree |-> t, hashing |-> hs, value |-> NoHash]
    ELSE IF t[node].nodehash = NoHash
    THEN NodeHashStore(t, hs, node, JMLNodeHashProcess(hs.algorithm, h, t[node]))
    ELSE [tree |-> t, hashing |-> hs, value |-> t[node].nodehash]

\* process feeding each node's depth after its hash, for the nodes of order
\* from the i-th on
RECURSIVE TreeHashEachWithDepth(_, _, _, _, _, _)
RECURSIVE TreeHashCallbackWithDepth(_, _, _, _, _)
TreeHashEachWithDepth(t, hs, h, order, i, hash) ==
    IF i > Len(order) THEN [tree |-> t, hashing |-> hs, value |-> hash]
    ELSE TreeHashCallbackWithDepth(NodeHashIndexGet(t, hs, h, order[i]), h,
                                   order, i, hash)

TreeHashCallbackWithDepth(got, h, order, i, hash) ==
    TreeHashEachWithDepth(
        got.tree, got.hashing, h, order, i + 1,
        HashUpdateAll(got.hashing.algorithm, hash,
                      <<NumberBytes(got.value),
                        NumberBytes(<<0, got.tree[order[i]].depth>>)>>, 1))

\* SimpleTreeHash.prototype.process feeding n.depth after each node hash (a
\* faulty variant: equal subtrees at different depths hash differently)
SimpleTreeHashWithDepth(t, hs, h, node) ==
    TreeHashEachWithDepth(t, hs, h, ForEach(t, node), 1, HashNew(hs.algorithm))

\* node.forEach in process, for the nodes of order from the i-th on: the
\* callback gets nodehashindex.get(n)
RECURSIVE TreeHashEach(_, _, _, _, _, _)
RECURSIVE TreeHashCallback(_, _, _, _, _)
TreeHashEach(t, hs, h, order, i, hash) ==
    IF i > Len(order) THEN [tree |-> t, hashing |-> hs, value |-> hash]
    ELSE TreeHashCallback(NodeHashIndexGet(t, hs, h, order[i]), h, order, i,
                          hash)

\* the callback of process feeding the number of children after the node
\* hash (a faulty variant: the tree hash encodes the nesting)
TreeHashCallbackNested(got, h, order, i, hash) ==
    TreeHashEach(got.tree, got.hashing, h, order, i + 1,
                 HashUpdateAll(got.hashing.algorithm, hash,
                               <<NumberBytes(got.value),
                                 NumberBytes(<<0, Len(got.tree[order[i]].children)>>)>>,
                               1))

\* the callback of process: hash.update(nodehash), got being what
\* nodehashindex.get(n) made and returned
TreeHashCallback(got, h, order, i, hash) ==
    TreeHashEach(got.tree, got.hashing, h, order, i + 1,
                 HashUpdate(got.hashing.algorithm, hash,
                            NumberBytes(got.value), 1))

\* SimpleTreeHash.prototype.process(node)
SimpleTreeHashProcess(t, hs, h, node) ==
    TreeHashEach(t, hs, h, ForEach(t, node), 1, HashNew(hs.algorithm))

\* node[this.propname] = made.value, made being what treehash.process(node)
\* made and returned
TreeHashStore(made, node) ==
    [tree |-> [made.tree EXCEPT ![node].treehash = made.value],
     hashing |-> [made.hashing EXCEPT !.treecalls[node] = @ + 1],
     value |-> made.value]

\* TreeHashIndex.prototype.get
TreeHashIndexGet(t, hs, h, node) ==
    IF node = NoNode THEN [tree |-> t, hashing |-> hs, value |-> NoHash]
    ELSE IF t[node].treehash = NoHash
    THEN TreeHashStore(SimpleTreeHashProcess(t, hs, h, node), node)
    ELSE [tree |-> t, hashing |-> hs, value |-> t[node].treehash]

\* the comparison, first and second being what the two get calls made and
\* returned
Compared(first, second) ==
    [tree |-> second.tree, hashing |-> second.hashing,
     value |-> first.value = second.value]

\* the second operand: doc2.treevalueindex.get(b), after the first
TreeEqualitySecond(first, h, b) ==
    Compared(first, TreeHashIndexGet(first.tree, first.hashing, h, b))

\* the second operand: doc2.valueindex.get(b), after the first
NodeEqualitySecond(first, h, b) ==
    Compared(first, NodeHashIndexGet(first.tree, first.hashing, h, b))

\* the function of createTreeEqualityTest(doc1, doc2), applied to a and b:
\* doc1.treevalueindex.get(a) === doc2.treevalueindex.get(b)
TreeEqualityTest(t, hs, h, a, b) ==
    TreeEqualitySecond(TreeHashIndexGet(t, hs, h, a), h, b)

\* the function of createNodeEqualityTest(doc1, doc2), applied to a and b
NodeEqualityTest(t, hs, h, a, b) ==
    NodeEqualitySecond(NodeHashIndexGet(t, hs, h, a), h, b)

----------------------------------------------------------------------------
(* History records *)

Call(op, h, arg, thrown, before) ==
    [op |-> op, h |-> h, arg |-> arg, thrown |-> thrown, before |-> before]

NoCall == Call("none", 0, 0, FALSE, <<>>)

\* The discipline of a patching session, followed over the calls made so far:
\* the hunks are activated in the order of their creation (phase "up", stack
\* the activated ones) and then deactivated in reverse ("down"); any other
\* call leaves the discipline ("off").  failed: a deactivation threw.
NoSession == [phase |-> "idle", stack |-> <<>>, failed |-> FALSE]

SessionAfter(s, op, h, wasActive, thrown) ==
    CASE op = "activate" /\ s.phase \in {"idle", "up"}
              /\ h = Len(s.stack) + 1 /\ ~wasActive /\ ~thrown ->
            [s EXCEPT !.phase = "up", !.stack = Append(@, h)]
      [] op = "deactivate" /\ s.phase \in {"up", "down"}
              /\ s.stack # <<>> /\ h = s.stack[Len(s.stack)] ->
            [phase |-> "down", stack |-> SubSeq(s.stack, 1, Len(s.stack) - 1),
             failed |-> s.failed \/ thrown]
      [] op = "create" /\ s.phase = "idle" -> s
      [] OTHER -> [phase |-> "off", stack |-> <<>>, failed |-> FALSE]

----------------------------------------------------------------------------
(* SpecTree: a client constructing nodes and appending them *)

NodeValues == {"a"}

InitTree ==
    /\ tree = <<>>
    /\ heap = <<>>
    /\ doc = Undefined
    /\ orig = <<>>
    /\ hunks = <<>>
    /\ session = NoSession
    /\ last = NoCall
    /\ docindex = NoDocumentOrderIndex
    /\ genindex = NoGenerationIndex
    /\ delta = NoDelta /\ patch = NoPatch /\ cli = NoRun
    /\ hashing = NoHashing

NewNode ==
    /\ Len(tree) < MaxNodes
    /\ \E v \in NodeValues :
          /\ tree' = Append(tree, Node(v, Str(v)))
          /\ last' = Call("new", Len(tree) + 1, 0, FALSE, <<>>)
    /\ UNCHANGED <<delta, patch, cli, heap, doc, orig, hunks, session, docindex, genindex, hashing>>

AppendNode ==
    /\ \E p \in 1..Len(tree), c \in 1..Len(tree) :
          LET res == NodeAppend(tree, p, c)
          IN /\ tree' = res.tree
             /\ last' = Call("append", p, c, res.thrown, <<>>)
    /\ UNCHANGED <<delta, patch, cli, heap, doc, orig, hunks, session, docindex, genindex, hashing>>

NextTree == NewNode \/ AppendNode

SpecTree == InitTree /\ [][NextTree]_vars

----------------------------------------------------------------------------
(* Claims about tree.Node *)

\* the node reached from n by following par k times (NoNode when the chain ends)
RECURSIVE Up(_, _, _)
Up(t, n, k) ==
    IF n = NoNode \/ k = 0 THEN n ELSE Up(t, t[n].par, k - 1)

\* no node is its own ancestor
Acyclic(t) == \A n \in 1..Len(t) : Up(t, n, Len(t)) = NoNode

\* the places (p, i) where node n occurs in a children list
Occurrences(t, n) ==
    {pi \in (1..Len(t)) \X (1..Len(t)) :
        pi[2] <= Len(t[pi[1]].children) /\ t[pi[1]].children[pi[2]] = n}

\* C8: Node.append(child) throws whenever child already has a parent, and a
\* failed append changes no node: children lists, par, childidx and depth of
\* the receiver, of child and of child's parent are as before the call.
C8_AppendRejectsParentedChild ==
    [][(last'.op = "append" /\ last'.arg \in 1..Len(tree)
            /\ tree[last'.arg].par # NoNode)
        => (last'.thrown /\ tree' = tree)]_vars

\* C8 witness: an append of a child that has another parent was refused
C8_Witness ==
    /\ last.op = "append"
    /\ last.thrown
    /\ tree[last.arg].par # NoNode
    /\ tree[last.arg].par # last.h
    /\ tree[last.h].children = <<>>

\* C9: after any sequence of successful appends every node without a parent
\* has depth 0 and every other node has its parent's depth plus 1.  Stated
\* for the trees proper (no node its own ancestor), where it can hold at all.
C9_DepthInvariant ==
    Acyclic(tree) =>
        \A n \in 1..Len(tree) :
            IF tree[n].par = NoNode
            THEN tree[n].depth = 0
            ELSE tree[n].depth = tree[tree[n].par].depth + 1

\* C10: after any sequence of appends, successful or failed, every node n
\* with a parent has n.par.children[n.childidx] === n, and no node occurs in
\* two children lists or twice in one.
C10_ParentIndexInvariant ==
    \A n \in 1..Len(tree) :
        /\ tree[n].par # NoNode =>
              /\ tree[n].childidx \in 0..(Len(tree[tree[n].par].children) - 1)
              /\ tree[tree[n].par].children[tree[n].childidx + 1] = n
        /\ Cardinality(Occurrences(tree, n)) <= 1
        /\ (tree[n].par = NoNode) = (Occurrences(tree, n) = {})

\* C10 witness: a node has two children, the second at childidx 1, and the
\* last append was refused
C10_Witness ==
    /\ last.op = "append"
    /\ last.thrown
    /\ \E p \in 1..Len(tree) :
          /\ Len(tree[p].children) = 2
          /\ tree[tree[p].children[2]].childidx = 1

----------------------------------------------------------------------------
(* Spec: a patching session on a JsonML document.  The client adapts the   *)
(* document, has the factory create a handler for each attached operation  *)
(* and then calls toggle, activate and deactivate on the handlers.         *)

\* ["ul", ["li","a"], ["li","c"], ["li","d"]]
ListDoc ==
    [heap |-> << <<Str("ul"), Arr(2), Arr(3), Arr(4)>>,
                 <<Str("li"), Str("a")>>,
                 <<Str("li"), Str("c")>>,
                 <<Str("li"), Str("d")>> >>,
     doc |-> Arr(1)]

\* ["p", {"id":"1"}, "p", "x"]: a text child equal to the tag name
TextDoc ==
    [heap |-> << <<Str("p"), Attrs(<< <<"id", "1">> >>), Str("p"), Str("x")>> >>,
     doc |-> Arr(1)]

\* ["a", "t"]
LinkDoc ==
    [heap |-> << <<Str("a"), Str("t")>> >>,
     doc |-> Arr(1)]

Documents == {ListDoc, TextDoc, LinkDoc}

\* The insert lists of the operations: the nodes the fragment adapter
\* imports from a patch (jmlpayload.js 59-70), each wrapping a payload of
\* its own.  "li": [["li","b"]], "text": ["p"], "a": [["a",{"href":"x"}]].
ImportFragment(h, frag) ==
    CASE frag = "li" ->
            [heap |-> Append(h, <<Str("li"), Str("b")>>),
             nodes |-> <<Node("li", Arr(Len(h) + 1))>>]
      [] frag = "a" ->
            [heap |-> Append(h, <<Str("a"), Attrs(<< <<"href", "x">> >>)>>),
             nodes |-> <<Node("a", Arr(Len(h) + 1))>>]
      [] frag = "text" ->
            [heap |-> h, nodes |-> <<Node("p", Str("p"))>>]
      [] OTHER -> [heap |-> h, nodes |-> <<>>]

\* the anchors a client can construct on the tree rooted at node 1: the
\* root, a node, or a slot of the children list of an element
AnchorInputs(t) ==
    {Anchor(t, 1, NoNode, NoIndex)}
        \cup {Anchor(t, 1, b, NoIndex) : b \in 1..Len(t)}
        \cup UNION {{Anchor(t, 1, b, i) : i \in 0..Len(t[b].children)} :
                        b \in {n \in 1..Len(t) : t[n].data.k = "arr"}}

\* the operations a client attaches: forest updates, node updates, and one
\* of a type the factory does not support
OperationInputs(t) ==
    [at : AnchorInputs(t), type : {"UPDATE_FOREST_TYPE"},
     len : 0..MaxRemove, frag : {"none", "li", "text"}]
        \cup [at : AnchorInputs(t), type : {"UPDATE_NODE_TYPE"},
              len : {1}, frag : {"none", "a"}]
        \cup [at : {Anchor(t, 1, NoNode, NoIndex)}, type : {"OTHER_TYPE"},
              len : {1}, frag : {"a"}]

Init ==
    \E d \in Documents :
        /\ heap = d.heap
        /\ doc = d.doc
        /\ tree = Adapt(d.heap, d.doc)
        /\ orig = Serialize(d.heap, d.doc)
        /\ hunks = <<>>
        /\ session = NoSession
        /\ last = NoCall
        /\ docindex = NoDocumentOrderIndex
        /\ genindex = NoGenerationIndex
        /\ delta = NoDelta /\ patch = NoPatch /\ cli = NoRun
        /\ hashing = NoHashing

CreateHandler ==
    /\ Len(hunks) < MaxHunks
    /\ last.op \in {"none", "create"}
    /\ \E op \in OperationInputs(tree) :
          LET imported == ImportFragment(heap, op.frag)
              res == CreateOperationHandler(tree, imported.heap, op.at,
                                            op.type, op.len, imported.nodes)
          IN /\ heap' = IF res.thrown THEN heap ELSE res.heap
             /\ hunks' = IF res.thrown THEN hunks
                         ELSE Append(hunks, res.handler)
             /\ last' = Call("create",
                             IF res.thrown THEN 0 ELSE Len(hunks) + 1, 0,
                             res.thrown, Serialize(heap, doc))
             /\ session' = SessionAfter(session, "create", 0, FALSE, res.thrown)
    /\ UNCHANGED <<delta, patch, cli, tree, doc, orig, docindex, genindex, hashing>>

\* a call of op on handler i with outcome res
Called(op, i, res) ==
    /\ heap' = res.heap
    /\ tree' = res.tree
    /\ hunks' = [hunks EXCEPT ![i].state = res.state]
    /\ last' = Call(op, i, 0, res.thrown, Serialize(heap, doc))
    /\ session' = SessionAfter(session, op, i, hunks[i].state = "true",
                               res.thrown)
    /\ UNCHANGED <<delta, patch, cli, doc, orig, docindex, genindex, hashing>>

Toggle ==
    \E i \in 1..Len(hunks) :
        Called("toggle", i, HandlerToggle(tree, heap, hunks[i]))

Activate ==
    \E i \in 1..Len(hunks) :
        Called("activate", i, HandlerActivate(tree, heap, hunks[i]))

Deactivate ==
    \E i \in 1..Len(hunks) :
        Called("deactivate", i, HandlerDeactivate(tree, heap, hunks[i]))

Next == CreateHandler \/ Toggle \/ Activate \/ Deactivate

Spec == Init /\ [][Next]_vars

----------------------------------------------------------------------------
(* Claims about the operation handlers *)

\* the serialization of the document
Payload == Serialize(heap, doc)

\* C1: for every hunk of the factory, toggle() twice in a row completes
\* without error and leaves the document's payload as it was before the
\* first toggle.  (last is the call before this step's call, last' this
\* step's call; last.before is the payload before the call last.)
C1_ToggleInvolution ==
    [][last'.op = "toggle" =>
        /\ ~last'.thrown
        /\ (last.op = "toggle" /\ last.h = last'.h) =>
              (~last.thrown /\ Payload' = last.before)]_vars

\* C2: activate() on an active hunk and deactivate() on an inactive hunk
\* change neither the payload nor isActive(); activate() from inactive makes
\* the hunk active and deactivate() from active makes it inactive, without
\* error.
C2_ActivateDeactivate ==
    [][\A i \in 1..Len(hunks) :
        /\ (last'.op = "activate" /\ last'.h = i) =>
              /\ ~last'.thrown
              /\ IF IsActive(hunks[i]) = "true"
                 THEN IsActive(hunks'[i]) = IsActive(hunks[i]) /\ Payload' = Payload
                 ELSE IsActive(hunks'[i]) = "true"
        /\ (last'.op = "deactivate" /\ last'.h = i) =>
              /\ ~last'.thrown
              /\ IF IsActive(hunks[i]) # "true"
                 THEN IsActive(hunks'[i]) = IsActive(hunks[i]) /\ Payload' = Payload
                 ELSE IsActive(hunks'[i]) = "false"]_vars

\* C3: a hunk just returned by createOperationHandler has isActive() false,
\* and creating it has not modified the document.
C3_CreatedInactive ==
    (last.op = "create" /\ ~last.thrown) =>
        /\ IsActive(hunks[last.h]) = "false"
        /\ Payload = last.before

\* C4: hunks h1..hk activated in the order of their creation and then
\* deactivated in reverse order: the deactivations complete without error
\* and the document has its original payload again.
C4_ReverseDeactivationRestores ==
    (session.phase = "down" /\ session.stack = <<>>) =>
        (~session.failed /\ Payload = orig)

\* what C5 expects of base's array: the children index..index+len-1 replaced
\* by the payloads repl, the rest in place
ExpectedForest(h, jml, index, len, repl) ==
    LET first == ChildStart(h, jml) + index
    IN SubSeq(h[jml.r], 1, first) \o repl
           \o SubSeq(h[jml.r], first + len + 1, Len(h[jml.r]))

\* C5: activating a forest-update hunk for anchor (base, index), remove
\* length L and replacement R on the untouched document leaves base's
\* payload with the children index..index+L-1 replaced by the payloads of R,
\* in order and each a direct child, the other items in place; so also for a
\* slot past the last child.
C5_ForestActivation ==
    [][\A i \in 1..Len(hunks) :
        (/\ last'.op = "activate" /\ last'.h = i
         /\ hunks[i].kind = "forest"
         /\ Payload = orig
         /\ \A j \in 1..Len(hunks) : IsActive(hunks[j]) # "true")
        => /\ ~last'.thrown
           /\ LET base == tree[hunks[i].at.base].data
              IN heap'[base.r] =
                    ExpectedForest(heap, base, hunks[i].at.index,
                                   hunks[i].len, hunks[i].newnodes)]_vars

\* C6: activating an inactive node-update hunk completes without error and
\* makes the new payload the anchor's node in the document, with the
\* children of the old payload carried over.
C6_NodeActivation ==
    [][\A i \in 1..Len(hunks) :
        (/\ last'.op = "activate" /\ last'.h = i
         /\ hunks[i].kind = "node"
         /\ IsActive(hunks[i]) = "false")
        => /\ ~last'.thrown
           /\ IsActive(hunks'[i]) = "true"
           /\ GetCurrentJMLNode(tree', hunks[i].anchor) = hunks[i].changednode
           /\ LET old == hunks[i].orignode
                  new == hunks[i].changednode
              IN new.k = "arr" =>
                    heap'[new.r] =
                        heap[new.r] \o SubSeq(heap[old.r],
                                              ChildStart(heap, old) + 1,
                                              Len(heap[old.r]))]_vars

\* the node-update hunks on node n
NodeHunksOn(n) ==
    {i \in 1..Len(hunks) : hunks[i].kind = "node" /\ hunks[i].anchor = n}

\* C7: getCurrentJMLNode(n) is n.data while no node-update hunk on n has
\* been toggled, the changed payload once such a hunk was activated and the
\* original payload once it was deactivated.
C7_CurrentNodeMap ==
    /\ \A n \in 1..Len(tree) :
          NodeHunksOn(n) = {} => GetCurrentJMLNode(tree, n) = tree[n].data
    /\ (last.op = "activate" /\ hunks[last.h].kind = "node") =>
          GetCurrentJMLNode(tree, hunks[last.h].anchor)
              = hunks[last.h].changednode
    /\ (last.op = "deactivate" /\ hunks[last.h].kind = "node") =>
          GetCurrentJMLNode(tree, hunks[last.h].anchor)
              = hunks[last.h].orignode

----------------------------------------------------------------------------
(* Two documents loaded side by side: the original and the changed one of a *)
(* diff, each adapted into a tree of its own.                               *)

\* JMLTreeAdapter.adapt for each of docs in turn; the wrappers of the
\* documents are the nodes without a parent
RECURSIVE AdaptAll(_, _, _, _)
AdaptAll(t, h, docs, i) ==
    IF i > Len(docs) THEN t
    ELSE AdaptAll(MapJml(t, h, docs[i], NoNode), h, docs, i + 1)

\* ["a","t"] and ["a","u"]
LinkPair ==
    [heap |-> << <<Str("a"), Str("t")>>, <<Str("a"), Str("u")>> >>,
     docs |-> <<Arr(1), Arr(2)>>]

\* ["p",{"id":"1"},"p","x"] and ["a","t"]
TextLinkPair ==
    [heap |-> << <<Str("p"), Attrs(<< <<"id", "1">> >>), Str("p"), Str("x")>>,
                 <<Str("a"), Str("t")>> >>,
     docs |-> <<Arr(1), Arr(2)>>]

DocumentPairs == {LinkPair, TextLinkPair}

\* a call that returns a value
Returned(op, h, arg, thrown, value) ==
    [op |-> op, h |-> h, arg |-> arg, thrown |-> thrown, before |-> <<>>,
     value |-> value]

----------------------------------------------------------------------------
(* SpecMatching: a diff pairing the nodes of two trees *)

InitMatching ==
    /\ \E d \in DocumentPairs :
          /\ heap = d.heap
          /\ tree = AdaptAll(<<>>, d.heap, d.docs, 1)
    /\ doc = Undefined
    /\ orig = <<>>
    /\ hunks = <<>>
    /\ session = NoSession
    /\ last = NoCall
    /\ docindex = NoDocumentOrderIndex
    /\ genindex = NoGenerationIndex
    /\ delta = NoDelta /\ patch = NoPatch /\ cli = NoRun
    /\ hashing = NoHashing

\* matching.put(a, b), for nodes a and b or undefined
Put ==
    /\ \E a \in 0..Len(tree), b \in 0..Len(tree) :
          LET res == MatchingPut(tree, a, b)
          IN /\ tree' = res.tree
             /\ last' = Call("put", a, b, res.thrown, <<>>)
    /\ UNCHANGED <<delta, patch, cli, heap, doc, orig, hunks, session, docindex, genindex, hashing>>

NextMatching == Put

SpecMatching == InitMatching /\ [][NextMatching]_vars

\* the partner links, as Matching.get reads them
Partners(t) == [n \in 1..Len(t) |-> MatchingGet(t, n)]

\* C11: Matching.put(a, b) throws whenever a or b already has a partner, and
\* a put that throws leaves the partner of every node as it was.
C11_PutRejectsMatched ==
    [][last'.op = "put" =>
        /\ (\E n \in {last'.h, last'.arg} \ {NoNode} :
                MatchingGet(tree, n) # NoNode) => last'.thrown
        /\ last'.thrown => Partners(tree') = Partners(tree)]_vars

\* C11 witness: a put of an unmatched a with a b matched to a third node was
\* refused
C11_Witness ==
    /\ last.op = "put" /\ last.thrown
    /\ last.h # NoNode /\ last.arg # NoNode
    /\ MatchingGet(tree, last.h) = NoNode
    /\ MatchingGet(tree, last.arg) \notin {NoNode, last.h, last.arg}

\* C12: after any sequence of puts the partner relation is symmetric,
\* get(get(a)) === a for every a with a partner, and no node is the partner
\* of two different nodes.
C12_MatchingSymmetry ==
    \A a \in 1..Len(tree) :
        /\ MatchingGet(tree, a) # NoNode =>
              MatchingGet(tree, MatchingGet(tree, a)) = a
        /\ \A b \in 1..Len(tree) :
              (a # b /\ MatchingGet(tree, a) # NoNode
                     /\ MatchingGet(tree, a) = MatchingGet(tree, b)) => FALSE

\* C12 witness: two pairs of different nodes are matched and the last put
\* was refused
C12_Witness ==
    /\ last.op = "put" /\ last.thrown
    /\ \E a, b, c, d \in 1..Len(tree) :
          /\ Cardinality({a, b, c, d}) = 4
          /\ MatchingGet(tree, a) = b
          /\ MatchingGet(tree, c) = d

----------------------------------------------------------------------------
(* SpecIndex: a document is loaded, a DocumentOrderIndex and a              *)
(* GenerationIndex are constructed over its tree, and a client builds and   *)
(* reads the indexes and appends nodes                                      *)

\* the offsets passed to get: none, or an integer
Offsets == {<<>>} \cup {<<k>> : k \in (0 - MaxOffset)..MaxOffset}

\* the documents loaded
IndexDocuments == {LinkDoc}

\* the state after the document is adapted and the indexes are constructed
\* over its tree (as loadOriginalDocument does for the DocumentOrderIndex,
\* before its call of buildAll)
InitIndex ==
    /\ \E d \in IndexDocuments :
          /\ heap = d.heap
          /\ doc = d.doc
          /\ tree = Adapt(d.heap, d.doc)
    /\ orig = <<>>
    /\ hunks = <<>>
    /\ session = NoSession
    /\ last = NoCall
    /\ docindex = DocumentOrderIndex(1)
    /\ genindex = GenerationIndex(1)
    /\ delta = NoDelta /\ patch = NoPatch /\ cli = NoRun
    /\ hashing = NoHashing

\* new Node(value, data), by a client of the loaded tree
NewLateNode ==
    /\ Len(tree) < Len(Adapt(heap, doc)) + MaxLateNodes
    /\ \E v \in NodeValues :
          /\ tree' = Append(tree, Node(v, Str(v)))
          /\ last' = Call("new", Len(tree) + 1, 0, FALSE, <<>>)
    /\ UNCHANGED <<delta, patch, cli, heap, doc, orig, hunks, session, docindex, genindex, hashing>>

\* docindex.buildAll(); the call returns when forEach does
DocumentOrderBuildAll ==
    /\ docindex.root # NoNode
    /\ ForEachReturns(tree, docindex.root)
    /\ LET res == DocumentOrderIndexBuildAll(tree, docindex)
       IN /\ tree' = res.tree
          /\ docindex' = res.index
          /\ last' = Call("DocumentOrderIndex.buildAll", docindex.root, 0,
                          FALSE, <<>>)
    /\ UNCHANGED <<delta, patch, cli, heap, doc, orig, hunks, session, genindex, hashing>>

\* genindex.buildAll()
GenerationBuildAll ==
    /\ genindex.root # NoNode
    /\ IF genindex.generations = <<>> THEN TRUE
       ELSE Len(genindex.generations[1]) < MaxFailedBuilds
    /\ ForEachReturns(tree, genindex.root)
    /\ LET res == GenerationIndexBuildAll(tree, genindex)
       IN /\ tree' = res.tree
          /\ genindex' = res.index
          /\ last' = Call("GenerationIndex.buildAll", genindex.root, 0,
                          res.thrown, <<>>)
    /\ UNCHANGED <<delta, patch, cli, heap, doc, orig, hunks, session, docindex, hashing>>

\* docindex.get(refnode, offset) and docindex.get(refnode)
DocumentOrderGet ==
    /\ docindex.root # NoNode
    /\ \E refnode \in 0..Len(tree), offset \in Offsets :
          LET res == DocumentOrderIndexGet(tree, docindex, refnode, offset)
          IN last' = Returned("DocumentOrderIndex.get", refnode, offset,
                              res.thrown, res.node)
    /\ UNCHANGED <<delta, patch, cli, tree, heap, doc, orig, hunks, session, docindex, genindex,
                   hashing>>

NextIndex ==
    \/ NewLateNode
    \/ AppendNode
    \/ DocumentOrderBuildAll
    \/ GenerationBuildAll

SpecIndex == InitIndex /\ [][NextIndex]_vars

\* SpecDocumentOrder: the DocumentOrderIndex alone, built and read
NextDocumentOrder ==
    \/ NewLateNode
    \/ AppendNode
    \/ DocumentOrderBuildAll
    \/ DocumentOrderGet

SpecDocumentOrder == InitIndex /\ [][NextDocumentOrder]_vars

----------------------------------------------------------------------------
(* Claims about the indexes *)

\* the number of steps from n up to root
Distance(t, root, n) == CHOOSE k \in 0..Len(t) : Up(t, n, k) = root

\* generations[d], empty when there is no such generation
Generation(idx, d) ==
    IF d >= 0 /\ d < Len(idx.generations) THEN idx.generations[d + 1]
    ELSE <<>>

\* the members of a sequence
Members(seq) == {seq[i] : i \in 1..Len(seq)}

\* the place of n in seq, counted from 0
Position(seq, n) == (CHOOSE i \in 1..Len(seq) : seq[i] = n) - 1

\* C13: after DocumentOrderIndex.buildAll the node sequence is the tree in
\* pre-order, every node once, and nodes[n.docorderidx] === n; after
\* GenerationIndex.buildAll generations[d] holds exactly the nodes d levels
\* below the root, in document order, and
\* generations[n.depth][n.gencacheidx] === n for every node of the tree
\* (depth counted from the root of the index).
C13_IndexConsistency ==
    /\ last.op = "DocumentOrderIndex.buildAll" =>
          /\ docindex.nodes = ForEach(tree, docindex.root)
          /\ \A i \in 1..Len(docindex.nodes) :
                tree[docindex.nodes[i]].docorderidx = i - 1
    /\ last.op = "GenerationIndex.buildAll" =>
          LET root == genindex.root
              order == ForEach(tree, root)
          IN /\ ~last.thrown
             /\ \A d \in 0..Len(tree) :
                   Generation(genindex, d) =
                       SelectSeq(order, LAMBDA n : Distance(tree, root, n) = d)
             /\ \A i \in 1..Len(order) :
                   LET n == order[i]
                       g == Generation(genindex, tree[n].depth - tree[root].depth)
                   IN /\ tree[n].gencacheidx >= 0
                      /\ tree[n].gencacheidx < Len(g)
                      /\ g[tree[n].gencacheidx + 1] = n

\* C14: for a built DocumentOrderIndex, an indexed node ref and an offset,
\* get(ref, offset) returns the node at position pos(ref) + offset of the
\* index's node sequence when that position exists and undefined otherwise,
\* without throwing; get(ref) returns ref.
C14_DocumentOrderGet ==
    (/\ last.op = "DocumentOrderIndex.get"
     /\ docindex.idxcomplete
     /\ last.h \in Members(docindex.nodes))
    => LET at == Position(docindex.nodes, last.h)
                    + (IF last.arg = <<>> THEN 0 ELSE last.arg[1])
       IN /\ ~last.thrown
          /\ last.value = IF at >= 0 /\ at < Len(docindex.nodes)
                          THEN docindex.nodes[at + 1] ELSE NoNode
          /\ last.arg = <<>> => last.value = last.h

\* C14 witness: on a built index, a get with a negative offset returned
\* another node, ...
C14_WitnessBack ==
    /\ last.op = "DocumentOrderIndex.get"
    /\ docindex.idxcomplete
    /\ last.h \in Members(docindex.nodes)
    /\ last.arg # <<>>
    /\ last.arg[1] < 0
    /\ last.value \notin {NoNode, last.h}

\* ... a get past the end returned undefined without throwing, ...
C14_WitnessPastEnd ==
    /\ last.op = "DocumentOrderIndex.get"
    /\ docindex.idxcomplete
    /\ Len(docindex.nodes) = 3
    /\ last.h = docindex.nodes[2]
    /\ last.arg = <<2>>
    /\ last.value = NoNode
    /\ ~last.thrown

\* ... and a get without offset returned the reference node, here the last of
\* an index of three nodes
C14_Witness ==
    /\ last.op = "DocumentOrderIndex.get"
    /\ docindex.idxcomplete
    /\ Len(docindex.nodes) = 3
    /\ last.h = docindex.nodes[3]
    /\ last.arg = <<>>
    /\ last.value = last.h

\* the nodes of a built index
Indexed ==
    (IF docindex.idxcomplete THEN Members(docindex.nodes) ELSE {})
        \cup (IF genindex.idxcomplete
              THEN UNION {Members(genindex.generations[d]) :
                              d \in 1..Len(genindex.generations)}
              ELSE {})

\* C15: once an index is built, an append onto a node of the indexed tree
\* throws, and so the node sequence of a built DocumentOrderIndex stays the
\* pre-order of the tree.
C15_IndexedTreeFrozen ==
    [][/\ (last'.op = "append" /\ last'.h \in Indexed) => last'.thrown
       /\ (docindex'.idxcomplete /\ ForEachReturns(tree', docindex'.root)) =>
              docindex'.nodes = ForEach(tree', docindex'.root)]_vars

----------------------------------------------------------------------------
(* SpecHash: two documents are loaded, each with a NodeHashIndex over       *)
(* JMLNodeHash and a TreeHashIndex over SimpleTreeHash, and a diff reads    *)
(* the hashes and applies the equality tests.                               *)

\* ["a",{"id":"1","href":"x"},"x"] and ["c",["a",{"href":"x","id":"1"},"x"]]
AttributePair ==
    [heap |-> << <<Str("a"), Attrs(<< <<"id", "1">>, <<"href", "x">> >>),
                   Str("x")>>,
                 <<Str("c"), Arr(3)>>,
                 <<Str("a"), Attrs(<< <<"href", "x">>, <<"id", "1">> >>),
                   Str("x")>> >>,
     docs |-> <<Arr(1), Arr(2)>>]

\* ["a",["b",["c"]]] and ["a",["b"],["c"]]
ShapePair ==
    [heap |-> << <<Str("a"), Arr(2)>>, <<Str("b"), Arr(3)>>, <<Str("c")>>,
                 <<Str("a"), Arr(5), Arr(6)>>, <<Str("b")>>, <<Str("c")>> >>,
     docs |-> <<Arr(1), Arr(4)>>]

\* ["a","bfvfsz"] and ["a","emlncn"]
TextPair ==
    [heap |-> << <<Str("a"), Str("bfvfsz")>>, <<Str("a"), Str("emlncn")>> >>,
     docs |-> <<Arr(1), Arr(2)>>]

\* ["a","mbu"] and ["a","atgh"]
ShortTextPair ==
    [heap |-> << <<Str("a"), Str("mbu")>>, <<Str("a"), Str("atgh")>> >>,
     docs |-> <<Arr(1), Arr(2)>>]

HashedPairs == {AttributePair, ShapePair, TextPair, ShortTextPair}

\* the state after both documents are loaded with the hash algorithm
Loaded(d, algorithm) ==
    /\ heap = d.heap
    /\ tree = AdaptAll(<<>>, d.heap, d.docs, 1)
    /\ delta = NoDelta /\ patch = NoPatch /\ cli = NoRun
    /\ hashing = [algorithm |-> algorithm,
                  nodecalls |-> [n \in 1..Len(AdaptAll(<<>>, d.heap, d.docs, 1)) |-> 0],
                  treecalls |-> [n \in 1..Len(AdaptAll(<<>>, d.heap, d.docs, 1)) |-> 0]]
    /\ doc = Undefined
    /\ orig = <<>>
    /\ hunks = <<>>
    /\ session = NoSession
    /\ last = NoCall
    /\ docindex = NoDocumentOrderIndex
    /\ genindex = NoGenerationIndex

\* loadInputDocument: the indexes use fnv132.Hash
InitHash == \E d \in HashedPairs : Loaded(d, "fnv132")

\* the root of the tree a node is in
RECURSIVE RootOf(_, _)
RootOf(t, n) == IF t[n].par = NoNode THEN n ELSE RootOf(t, t[n].par)

\* the state after a call that made and returned got
HashesAfter(got, op, h, arg) ==
    /\ tree' = got.tree
    /\ hashing' = got.hashing
    /\ last' = Returned(op, h, arg, FALSE, got.value)

\* valueindex.get(node)
NodeHashGet ==
    /\ \E node \in 0..Len(tree) :
          HashesAfter(NodeHashIndexGet(tree, hashing, heap, node),
                      "NodeHashIndex.get", node, 0)
    /\ UNCHANGED <<delta, patch, cli, heap, doc, orig, hunks, session, docindex, genindex>>

\* treevalueindex.get(node)
TreeHashGet ==
    /\ \E node \in 0..Len(tree) :
          HashesAfter(TreeHashIndexGet(tree, hashing, heap, node),
                      "TreeHashIndex.get", node, 0)
    /\ UNCHANGED <<delta, patch, cli, heap, doc, orig, hunks, session, docindex, genindex>>

\* the tree equality test, on a node of the first document and one of the
\* second
TreeEqual ==
    /\ \E a \in 1..Len(tree), b \in 1..Len(tree) :
          /\ RootOf(tree, a) = 1
          /\ RootOf(tree, b) # 1
          /\ HashesAfter(TreeEqualityTest(tree, hashing, heap, a, b),
                         "treeEqual", a, b)
    /\ UNCHANGED <<delta, patch, cli, heap, doc, orig, hunks, session, docindex, genindex>>

NextHash == NodeHashGet \/ TreeHashGet \/ TreeEqual

SpecHash == InitHash /\ [][NextHash]_vars

\* SpecHashIndex: the indexes over fnv132.Hash or over a hash algorithm
\* whose digest is 0
InitHashIndex ==
    \E d \in {AttributePair}, algorithm \in {"fnv132", "zero"} :
        Loaded(d, algorithm)

SpecHashIndex == InitHashIndex /\ [][NextHash]_vars

-----------------------------------------------------------------------------
(* The hash caches *)

HashGets == {"NodeHashIndex.get", "TreeHashIndex.get"}

\* C16: the hash caches are memoized per node and written on first access:
\* the node hash protocol and the tree hash protocol are each invoked at most
\* once per node, a cached value (0 included) is never computed or written
\* again and is what every later get returns, and get(undefined) returns
\* undefined and computes nothing.
C16_HashCachesMemoized ==
    [][/\ \A n \in 1..Len(tree) :
            /\ hashing'.nodecalls[n] <= 1
            /\ hashing'.treecalls[n] <= 1
            /\ tree[n].nodehash # NoHash =>
                  /\ tree'[n].nodehash = tree[n].nodehash
                  /\ hashing'.nodecalls[n] = hashing.nodecalls[n]
            /\ tree[n].treehash # NoHash =>
                  /\ tree'[n].treehash = tree[n].treehash
                  /\ hashing'.treecalls[n] = hashing.treecalls[n]
            /\ (tree[n].nodehash = NoHash /\ tree'[n].nodehash # NoHash) =>
                  hashing'.nodecalls[n] = hashing.nodecalls[n] + 1
            /\ (tree[n].treehash = NoHash /\ tree'[n].treehash # NoHash) =>
                  hashing'.treecalls[n] = hashing.treecalls[n] + 1
       /\ (last'.op = "NodeHashIndex.get" /\ last'.h # NoNode) =>
            /\ last'.value = tree'[last'.h].nodehash
            /\ last'.value # NoHash
       /\ (last'.op = "TreeHashIndex.get" /\ last'.h # NoNode) =>
            /\ last'.value = tree'[last'.h].treehash
            /\ last'.value # NoHash
       /\ (last'.op \in HashGets /\ last'.h = NoNode) =>
            /\ last'.value = NoHash
            /\ tree' = tree
            /\ hashing' = hashing]_vars

\* valueindex.get(n) returns the cached 0 that treevalueindex.get(n) had
\* computed before, each protocol having run once for n
C16_Witness ==
    \E n \in 1..Len(tree) :
        /\ hashing.algorithm = "zero"
        /\ last.op = "NodeHashIndex.get"
        /\ last.h = n
        /\ last.value = <<0, 0>>
        /\ tree[n].treehash = <<0, 0>>
        /\ hashing.nodecalls[n] = 1
        /\ hashing.treecalls[n] = 1

-----------------------------------------------------------------------------
(* Hash stability *)

\* the key/value pairs of an element's attributes, as a set
AttributeSet(h, jml) ==
    IF HasAttributes(h, jml)
    THEN {h[jml.r][2].a[i] : i \in 1..Len(h[jml.r][2].a)}
    ELSE {}

\* a and b carry the same payload: both texts with the same string, or both
\* elements with the same tag and the same attribute set
SameValue(t, h, a, b) ==
    IF IsElement(h, t[a].data)
    THEN /\ IsElement(h, t[b].data)
         /\ GetTagName(h, t[a].data) = GetTagName(h, t[b].data)
         /\ AttributeSet(h, t[a].data) = AttributeSet(h, t[b].data)
    ELSE /\ ~IsElement(h, t[b].data)
         /\ t[a].data.s = t[b].data.s

\* the subtrees at a and b are structurally equal: same shape, same payload
\* pair-wise
RECURSIVE StructurallyEqual(_, _, _, _)
StructurallyEqual(t, h, a, b) ==
    /\ SameValue(t, h, a, b)
    /\ Len(t[a].children) = Len(t[b].children)
    /\ \A i \in 1..Len(t[a].children) :
          StructurallyEqual(t, h, t[a].children[i], t[b].children[i])

\* C17: hash stability: the roots of two structurally equal subtrees, in the
\* same or in different documents, have the same tree hash, and corresponding
\* nodes have the same node hash.
C17_HashStability ==
    \A a \in 1..Len(tree), b \in 1..Len(tree) :
        StructurallyEqual(tree, heap, a, b) =>
            /\ (tree[a].treehash # NoHash /\ tree[b].treehash # NoHash) =>
                  tree[a].treehash = tree[b].treehash
            /\ (tree[a].nodehash # NoHash /\ tree[b].nodehash # NoHash) =>
                  tree[a].nodehash = tree[b].nodehash

\* two structurally equal subtrees of more than one node, in different
\* documents and at different depths, their roots' attributes stored in
\* different orders, both tree hashes computed
C17_Witness ==
    \E a \in 1..Len(tree), b \in 1..Len(tree) :
        /\ RootOf(tree, a) # RootOf(tree, b)
        /\ tree[a].depth # tree[b].depth
        /\ StructurallyEqual(tree, heap, a, b)
        /\ tree[a].children # <<>>
        /\ HasAttributes(heap, tree[a].data)
        /\ heap[tree[a].data.r][2].a # heap[tree[b].data.r][2].a
        /\ tree[a].treehash # NoHash
        /\ tree[a].treehash = tree[b].treehash
        /\ last.op = "treeEqual"
        /\ last.value = TRUE

-----------------------------------------------------------------------------
(* The tree equality test *)

\* the node hash of n, cached or not
NodeHashOf(n) == NodeHashIndexGet(tree, hashing, heap, n).value

\* the structural recheck of the subtrees at a and b: they have as many
\* nodes, and the nodes at the same place in document order are node-equal
\* by the node equality test
Recheck(a, b) ==
    LET first == ForEach(tree, a)
        second == ForEach(tree, b)
    IN /\ Len(first) = Len(second)
       /\ \A i \in 1..Len(first) : NodeHashOf(first[i]) = NodeHashOf(second[i])

\* C18: the tree equality test reports two subtrees equal if and only if
\* their tree hashes match and the structural recheck in document order
\* finds the corresponding nodes pair-wise node-equal.
C18_TreeEqualityRechecked ==
    last.op = "treeEqual" =>
        (last.value <=>
            /\ tree[last.h].treehash = tree[last.arg].treehash
            /\ Recheck(last.h, last.arg))

-----------------------------------------------------------------------------
(* The node hash of an element *)

\* the nodes that wrap an element
Elements == {n \in 1..Len(tree) : IsElement(heap, tree[n].data)}

\* the attribute keys among the updates of processElement, in the order fed:
\* three updates for the tag, then four for each attribute, the key second
KeysFed(updates) == [j \in 1..((Len(updates) - 3) \div 4) |-> updates[4 * j + 1]]

\* C19: the node hash of an element does not depend on the order its
\* attributes are stored in, nor on its children or position: the attributes
\* are fed in ascending key order, so two elements with the same tag and the
\* same attribute set make the same sequence of hash updates and have the
\* same node hash.
C19_AttributeOrderIndependent ==
    \A a \in Elements :
        /\ LET keys == KeysFed(ProcessElement(heap, tree[a].data))
           IN /\ Len(keys) = Cardinality(AttributeSet(heap, tree[a].data))
              /\ \A j \in 1..(Len(keys) - 1) : BytesLess(keys[j], keys[j + 1], 1)
        /\ \A b \in Elements :
              SameValue(tree, heap, a, b) =>
                 /\ ProcessElement(heap, tree[a].data)
                       = ProcessElement(heap, tree[b].data)
                 /\ (tree[a].nodehash # NoHash /\ tree[b].nodehash # NoHash) =>
                       tree[a].nodehash = tree[b].nodehash

\* two elements with the same tag and the same two attributes, stored in
\* different orders, at different depths, both node hashes computed
C19_Witness ==
    \E a \in Elements, b \in Elements :
        /\ SameValue(tree, heap, a, b)
        /\ Cardinality(AttributeSet(heap, tree[a].data)) = 2
        /\ heap[tree[a].data.r][2].a # heap[tree[b].data.r][2].a
        /\ tree[a].depth # tree[b].depth
        /\ tree[a].nodehash # NoHash
        /\ tree[a].nodehash = tree[b].nodehash
        /\ last.op = "NodeHashIndex.get"
        /\ last.h = b

-----------------------------------------------------------------------------
(* SpecAnchor: anchors made on a loaded tree that a client goes on building *)

\* new Anchor(root, base, index), any argument possibly left out
NewAnchor ==
    /\ \E root \in 0..Len(tree), base \in 0..Len(tree) :
       \E index \in {NoIndex} \cup 0..MaxOffset :
          LET made == Anchor(tree, root, base, index)
          IN last' = Returned("Anchor", root, <<base, index>>, made.thrown,
                              made)
    /\ UNCHANGED <<delta, patch, cli, tree, heap, doc, orig, hunks, session, docindex, genindex,
                   hashing>>

NextAnchor == NewLateNode \/ AppendNode \/ NewAnchor

SpecAnchor == InitIndex /\ [][NextAnchor]_vars

\* C20: Anchor(root, node) with node other than root has target = node,
\* base = node.par and index = node.childidx; Anchor(root, base, index) has
\* target = base.children[index], undefined past the end; Anchor(root) and
\* Anchor(root, root) have target = root and neither base nor index; without
\* a root the constructor throws.  Whenever an anchor has a base and a
\* target, base.children[index] is the target.
C20_AnchorConstruction ==
    last.op = "Anchor" =>
        LET root == last.h
            base == last.arg[1]
            index == last.arg[2]
            made == last.value
        IN /\ last.thrown <=> root = NoNode
           /\ (root # NoNode /\ base # NoNode /\ base # root /\ index = NoIndex) =>
                 /\ made.target = base
                 /\ made.base = tree[base].par
                 /\ made.index = tree[base].childidx
           /\ (root # NoNode /\ base # NoNode /\ index # NoIndex) =>
                 /\ made.base = base
                 /\ made.index = index
                 /\ made.target = IF index < Len(tree[base].children)
                                  THEN tree[base].children[index + 1]
                                  ELSE NoNode
           /\ (root # NoNode /\ base \in {NoNode, root} /\ index = NoIndex) =>
                 /\ made.target = root
                 /\ made.base = NoNode
                 /\ made.index = NoIndex
           /\ (~last.thrown /\ made.base # NoNode /\ made.target # NoNode) =>
                 /\ made.index >= 0
                 /\ made.index < Len(tree[made.base].children)
                 /\ tree[made.base].children[made.index + 1] = made.target

\* the anchor of a node that is not its parent's first child
C20_WitnessNode ==
    /\ last.op = "Anchor"
    /\ last.arg[2] = NoIndex
    /\ last.value.target = last.arg[1]
    /\ last.value.base # NoNode
    /\ last.value.index = 1

\* the anchor of a slot past the end of a child list that is not empty
C20_WitnessPastEnd ==
    /\ last.op = "Anchor"
    /\ ~last.thrown
    /\ last.value.base # NoNode
    /\ tree[last.value.base].children # <<>>
    /\ last.value.index = Len(tree[last.value.base].children)
    /\ last.value.target = NoNode

C20_Witness == C20_WitnessNode \/ C20_WitnessPastEnd

-----------------------------------------------------------------------------
(* Repeated buildAll *)

\* C27: buildAll is idempotent for both indexes: a buildAll that is not the
\* index's first finds idxcomplete true and leaves the node sequence, the
\* generations and the positions cached on the nodes as they were, so that
\* no node is indexed twice.
C27_BuildAllIdempotent ==
    [][/\ (last'.op = "DocumentOrderIndex.buildAll" /\ docindex.nodes # <<>>) =>
            /\ docindex.idxcomplete
            /\ docindex' = docindex
            /\ tree' = tree
       /\ (last'.op = "GenerationIndex.buildAll" /\ genindex.generations # <<>>) =>
            /\ genindex.idxcomplete
            /\ genindex' = genindex
            /\ tree' = tree]_vars

-----------------------------------------------------------------------------
(* Acyclicity *)

\* C28: after any sequence of appends the parent relation is acyclic, no
\* node being its own parent or ancestor, so that forEach and
\* forEachPostorder return from every node.
C28_Acyclicity ==
    /\ Acyclic(tree)
    /\ \A n \in 1..Len(tree) : ForEachReturns(tree, n)

-----------------------------------------------------------------------------
(* The tree hash and the shape of the tree *)

\* the node hashes of the subtree at n, in document order
PreorderHashes(n) ==
    [i \in 1..Len(ForEach(tree, n)) |-> NodeHashOf(ForEach(tree, n)[i])]

\* the digest after one update per number of hashes
Digest(hashes) ==
    HashUpdateAll(hashing.algorithm, HashNew(hashing.algorithm),
                  [i \in 1..Len(hashes) |-> NumberBytes(hashes[i])], 1)

\* the nodes whose tree hash is computed
TreeHashed == {n \in 1..Len(tree) : tree[n].treehash # NoHash}

\* C30: the tree hash is a function of the node hashes in pre-order only:
\* process feeds one node hash per node, in document order, and nothing
\* else, so two subtrees whose nodes have the same node hashes in pre-order
\* have the same tree hash, whatever their shapes.
C30_TreeHashIgnoresNesting ==
    \A a \in TreeHashed :
        /\ tree[a].treehash = Digest(PreorderHashes(a))
        /\ \A b \in TreeHashed :
              PreorderHashes(a) = PreorderHashes(b) =>
                  tree[a].treehash = tree[b].treehash

\* a(b(c)) and a(b,c): of different shapes, of three nodes each, found equal
\* by the tree equality test
C30_Witness ==
    \E a \in TreeHashed, b \in TreeHashed :
        /\ last.op = "treeEqual"
        /\ last.h = a
        /\ last.arg = b
        /\ last.value
        /\ Len(ForEach(tree, a)) = 3
        /\ Len(tree[a].children) # Len(tree[b].children)
        /\ ~StructurallyEqual(tree, heap, a, b)
        /\ PreorderHashes(a) = PreorderHashes(b)

-----------------------------------------------------------------------------
(* SpecAdapt: JMLTreeAdapter.adapt on JsonML documents.  The document is    *)
(* heap[1]; it is written item by item, as a literal is, and adapted.       *)

\* the tag names, the attributes objects and the texts of the documents
AdaptTags == {"a"}

AdaptAttributes == {Attrs(<<>>), Attrs(<< <<"id", "1">> >>)}

AdaptTexts == {"a", "t"}

\* the elements without children: [tag] and [tag, attributes]
EmptyElements ==
    {<<Str(tag)>> : tag \in AdaptTags}
        \cup {<<Str(tag), attrs>> : tag \in AdaptTags, attrs \in AdaptAttributes}

InitAdapt ==
    /\ \E element \in EmptyElements : heap = <<element>>
    /\ doc = Arr(1)
    /\ tree = <<>>
    /\ orig = <<>>
    /\ hunks = <<>>
    /\ session = NoSession
    /\ last = NoCall
    /\ docindex = NoDocumentOrderIndex
    /\ genindex = NoGenerationIndex
    /\ delta = NoDelta /\ patch = NoPatch /\ cli = NoRun
    /\ hashing = NoHashing

\* one more text in an element of the document
WriteText ==
    /\ Len(Adapt(heap, doc)) < MaxNodes
    /\ \E r \in 1..Len(heap), text \in AdaptTexts :
          /\ heap' = [heap EXCEPT ![r] = Append(@, Str(text))]
          /\ last' = Call("write", r, 0, FALSE, <<>>)
    /\ UNCHANGED <<delta, patch, cli, tree, doc, orig, hunks, session, docindex, genindex, hashing>>

\* one more element in an element of the document
WriteElement ==
    /\ Len(Adapt(heap, doc)) < MaxNodes
    /\ \E r \in 1..Len(heap), element \in EmptyElements :
          /\ heap' = Append([heap EXCEPT ![r] = Append(@, Arr(Len(heap) + 1))],
                            element)
          /\ last' = Call("write", r, 0, FALSE, <<>>)
    /\ UNCHANGED <<delta, patch, cli, tree, doc, orig, hunks, session, docindex, genindex, hashing>>

\* tree = (new jmltree.JMLTreeAdapter()).adapt(jsonml)
AdaptDocument ==
    /\ tree' = Adapt(heap, doc)
    /\ last' = Call("adapt", 1, 0, FALSE, <<>>)
    /\ UNCHANGED <<delta, patch, cli, heap, doc, orig, hunks, session, docindex, genindex, hashing>>

NextAdapt == WriteText \/ WriteElement \/ AdaptDocument

SpecAdapt == InitAdapt /\ [][NextAdapt]_vars

\* the JsonML children of an element: what follows the tag name and the
\* attributes object, if there is one
JmlChildren(h, jml) ==
    IF Len(h[jml.r]) >= 2 /\ h[jml.r][2].k = "attrs"
    THEN SubSeq(h[jml.r], 3, Len(h[jml.r]))
    ELSE SubSeq(h[jml.r], 2, Len(h[jml.r]))

\* the number of elements and texts of jml
RECURSIVE JmlSize(_, _)
JmlSize(h, jml) ==
    IF jml.k # "arr" THEN 1
    ELSE LET children == JmlChildren(h, jml)
             sizes == [i \in 1..Len(children) |-> JmlSize(h, children[i])]
             Sum[i \in 0..Len(children)] ==
                 IF i = 0 THEN 0 ELSE Sum[i - 1] + sizes[i]
         IN 1 + Sum[Len(children)]

\* node n of t mirrors jml, found at the given nesting level under parent
\* par as its child of index childidx
RECURSIVE Mirrors(_, _, _, _, _, _, _)
Mirrors(t, h, n, jml, level, par, childidx) ==
    /\ t[n].data = jml
    /\ t[n].depth = level
    /\ t[n].par = par
    /\ t[n].childidx = childidx
    /\ IF jml.k = "arr"
       THEN /\ t[n].value = h[jml.r][1].s
            /\ Len(t[n].children) = Len(JmlChildren(h, jml))
            /\ \A i \in 1..Len(t[n].children) :
                  Mirrors(t, h, t[n].children[i], JmlChildren(h, jml)[i],
                          level + 1, n, i - 1)
       ELSE /\ t[n].value = jml.s
            /\ t[n].children = <<>>

\* C24: the tree adapt returns mirrors the JsonML document: the root's data
\* is the document and its value the root tag name, every element node has
\* one child node per JsonML child, in order, and none for the attributes
\* object, a text is a leaf whose value and data are the text, and every
\* node's depth is its nesting level.
C24_AdaptMirrorsDocument ==
    last.op = "adapt" =>
        /\ Mirrors(tree, heap, 1, doc, 0, NoNode, NoIndex)
        /\ Len(tree) = JmlSize(heap, doc)

\* an adapted document with attributes, an element child and a text at
\* nesting level 2 that reads as the tag names do
C24_Witness ==
    /\ last.op = "adapt"
    /\ Len(heap[1]) = 3
    /\ heap[1][2].k = "attrs"
    /\ \E n \in 1..Len(tree) :
          /\ tree[n].depth = 2
          /\ tree[n].data = Str("a")
          /\ tree[tree[n].par].value = "a"

-----------------------------------------------------------------------------
(* SpecFactory: the requests made to the handler factory *)

\* handler = factory.createOperationHandler(anchor, type, path, remove,
\* insert), asked for until a handler is returned, which is kept in hunks
CreateOperation ==
    /\ hunks = <<>>
    /\ \E op \in OperationInputs(tree) :
          LET imported == ImportFragment(heap, op.frag)
              res == CreateOperationHandler(tree, imported.heap, op.at,
                                            op.type, op.len, imported.nodes)
          IN /\ heap' = IF res.thrown THEN heap ELSE res.heap
             /\ hunks' = IF res.thrown THEN hunks
                         ELSE Append(hunks, res.handler)
             /\ last' = Returned("createOperationHandler",
                                 IF res.thrown THEN 0 ELSE Len(hunks) + 1,
                                 op, res.thrown, Serialize(heap, doc))
             /\ session' = SessionAfter(session, "create", 0, FALSE, res.thrown)
    /\ UNCHANGED <<delta, patch, cli, tree, doc, orig, docindex, genindex, hashing>>

NextFactory == CreateOperation

SpecFactory == Init /\ [][NextFactory]_vars

\* the requests the factory is to reject
Rejected(op) ==
    \/ op.type \notin {"UPDATE_NODE_TYPE", "UPDATE_FOREST_TYPE"}
    \/ /\ op.type = "UPDATE_FOREST_TYPE"
       /\ \/ op.at.base = NoNode
          \/ op.at.index = NoIndex
          \/ (op.len = 0 /\ op.frag = "none")
    \/ /\ op.type = "UPDATE_NODE_TYPE"
       /\ op.at.target = NoNode

\* C26: createOperationHandler rejects with an error, and without creating
\* a hunk or changing the document, a request of an unsupported type, a
\* forest update whose anchor has no base or no index, a forest update that
\* removes and inserts nothing, and a node update whose anchor has no
\* target.
C26_InvalidRequestsRejected ==
    [][(last'.op = "createOperationHandler" /\ Rejected(last'.arg)) =>
          /\ last'.thrown
          /\ hunks' = hunks
          /\ Serialize(heap', doc') = Serialize(heap, doc)
          /\ Serialize(heap', doc') = last'.value]_vars

\* a forest update at a slot of a child list was rejected: it removes and
\* inserts nothing
C26_Witness ==
    /\ last.op = "createOperationHandler"
    /\ Rejected(last.arg)
    /\ last.arg.type = "UPDATE_FOREST_TYPE"
    /\ last.arg.at.base # NoNode
    /\ last.arg.at.index # NoIndex
    /\ last.thrown
    /\ hunks = <<>>

-----------------------------------------------------------------------------
(* The frame of a forest update *)

HandlerCalls == {"toggle", "activate", "deactivate"}

\* C29: a call that toggles a forest-update hunk changes neither position 0
\* (the tag name) nor the attributes object of the parent's JsonML array,
\* nor any child outside the hunk's range: the items before the range and
\* the items after it are as they were.
C29_ForestFrame ==
    [][\A i \in 1..Len(hunks) :
        (/\ last'.op \in HandlerCalls /\ last'.h = i
         /\ hunks[i].kind = "forest"
         /\ tree[hunks[i].at.base].data.k = "arr")
        => LET r == tree[hunks[i].at.base].data.r
               first == ChildStart(heap, tree[hunks[i].at.base].data)
                            + hunks[i].at.index
               out == IF IsActive(hunks[i]) = "true"
                      THEN Len(hunks[i].newnodes) ELSE Len(hunks[i].oldnodes)
               after == Len(heap[r]) - first - out
           IN /\ Len(heap'[r]) >= first + after
              /\ SubSeq(heap'[r], 1, first) = SubSeq(heap[r], 1, first)
              /\ SubSeq(heap'[r], Len(heap'[r]) - after + 1, Len(heap'[r]))
                    = SubSeq(heap[r], Len(heap[r]) - after + 1, Len(heap[r]))]_vars

----------------------------------------------------------------------------
(* The JsonML delta adapter: part_002 14-158.                               *)
(*                                                                         *)
(* The adapter formats numbers into strings and parses strings into        *)
(* numbers, so here a string is the sequence of its characters.  The       *)
(* values of a patch document are records of one shape, held by value: no  *)
(* array of a patch document is reached through two references.            *)

JsString(chars) == [k |-> "str", s |-> chars, c |-> <<>>, n |-> 0]

JsArray(items) == [k |-> "arr", s |-> <<>>, c |-> items, n |-> 0]

\* an object: its pairs <<key, value>> in insertion order
JsObject(pairs) == [k |-> "obj", s |-> <<>>, c |-> pairs, n |-> 0]

JsNumber(n) == [k |-> "num", s |-> <<>>, c |-> <<>>, n |-> n]

JsNaN == [k |-> "nan", s |-> <<>>, c |-> <<>>, n |-> 0]

\* a condition on a value: if (v), v ? x : y
JsTruthy(v) ==
    CASE v.k = "num" -> v.n # 0
      [] v.k = "str" -> v.s # <<>>
      [] v.k \in {"undef", "nan"} -> FALSE
      [] OTHER -> TRUE

\* the digits of Number.prototype.toString(radix)
Digits ==
    <<"0", "1", "2", "3", "4", "5", "6", "7", "8", "9",
      "a", "b", "c", "d", "e", "f">>

\* n.toString(radix), n a non-negative integer
RECURSIVE NumberToString(_, _)
NumberToString(n, radix) ==
    IF n < radix
    THEN <<Digits[n + 1]>>
    ELSE Append(NumberToString(n \div radix, radix), Digits[(n % radix) + 1])

\* the value of a digit; Len(Digits) for a character that is none
DigitValue(char) ==
    IF \E d \in 1..Len(Digits) : Digits[d] = char
    THEN (CHOOSE d \in 1..Len(Digits) : Digits[d] = char) - 1
    ELSE Len(Digits)

\* parseInt: the longest run of digits of the radix from position i on;
\* value is NaN until a digit is read
RECURSIVE ParseDigits(_, _, _, _)
ParseDigits(chars, i, radix, value) ==
    IF i > Len(chars)
    THEN value
    ELSE IF DigitValue(chars[i]) >= radix
    THEN value
    ELSE ParseDigits(chars, i + 1, radix,
             JsNumber((IF value.k = "num" THEN value.n * radix ELSE 0)
                      + DigitValue(chars[i])))

\* parseInt skips leading white space
RECURSIVE SkipSpaces(_, _)
SkipSpaces(chars, i) ==
    IF i > Len(chars) THEN i
    ELSE IF chars[i] = " " THEN SkipSpaces(chars, i + 1)
    ELSE i

\* parseInt(string, radix), for strings without a sign and without a 0x
\* prefix (the characters of a patch written by this adapter are the
\* digits, ';', '/' and, in a patch edited by hand, the space)
ParseInt(chars, radix) ==
    ParseDigits(chars, SkipSpaces(chars, 1), radix, JsNaN)

\* String.prototype.trim
RECURSIVE Trim(_)
Trim(chars) ==
    IF chars = <<>> THEN chars
    ELSE IF chars[1] = " " THEN Trim(Tail(chars))
    ELSE IF chars[Len(chars)] = " "
    THEN Trim(SubSeq(chars, 1, Len(chars) - 1))
    ELSE chars

\* String.prototype.split(separator), from position i on; the last of
\* parts is the component being read
RECURSIVE SplitFrom(_, _, _, _)
SplitFrom(chars, separator, i, parts) ==
    IF i > Len(chars) THEN parts
    ELSE IF chars[i] = separator
    THEN SplitFrom(chars, separator, i + 1, Append(parts, <<>>))
    ELSE SplitFrom(chars, separator, i + 1,
             [parts EXCEPT ![Len(parts)] = Append(@, chars[i])])

Split(chars, separator) == SplitFrom(chars, separator, 1, << <<>> >>)

\* Array.prototype.join(separator) of strings, from position i on
RECURSIVE JoinFrom(_, _, _)
JoinFrom(parts, separator, i) ==
    IF i > Len(parts) THEN <<>>
    ELSE (IF i > 1 THEN <<separator>> ELSE <<>>)
         \o parts[i] \o JoinFrom(parts, separator, i + 1)

Join(parts, separator) == JoinFrom(parts, separator, 1)

(* JsonML utilities on values: part_003 38-118, 145-258 *)

\* JsonML.isElement
JsonMLIsElement(jml) ==
    IF jml.k # "arr" THEN FALSE
    ELSE IF jml.c = <<>> THEN FALSE
    ELSE jml.c[1].k = "str"

\* JsonML.hasAttributes, for an element
JsonMLHasAttributes(jml) ==
    IF Len(jml.c) < 2 THEN FALSE ELSE jml.c[2].k = "obj"

\* JsonML.getTagName
JsonMLGetTagName(jml) == jml.c[1].s

\* JsonML.getChildren, for an element
JsonMLGetChildren(jml) ==
    SubSeq(jml.c, IF JsonMLHasAttributes(jml) THEN 3 ELSE 2, Len(jml.c))

\* object[key]
Property(pairs, key) ==
    IF \E i \in 1..Len(pairs) : pairs[i][1] = key
    THEN pairs[CHOOSE i \in 1..Len(pairs) : pairs[i][1] = key][2]
    ELSE JsUndefined

\* object[key] = value
PropertySet(pairs, key, value) ==
    IF \E i \in 1..Len(pairs) : pairs[i][1] = key
    THEN [i \in 1..Len(pairs) |->
             IF pairs[i][1] = key THEN <<key, value>> ELSE pairs[i]]
    ELSE Append(pairs, <<key, value>>)

\* JsonML.getAttribute, for an element
JsonMLGetAttribute(jml, key) ==
    IF JsonMLHasAttributes(jml)
    THEN Property(jml.c[2].c, key)
    ELSE JsUndefined

\* JsonML.setAttribute, for an element: getAttributes(jml, true) puts an
\* empty attributes object after the tag name when there is none
JsonMLSetAttribute(jml, key, value) ==
    IF JsonMLHasAttributes(jml)
    THEN JsArray([jml.c EXCEPT
             ![2] = JsObject(PropertySet(jml.c[2].c, key, value))])
    ELSE JsArray(<<jml.c[1], JsObject(<< <<key, value>> >>)>>
                 \o Tail(jml.c))

\* JsonML.appendChild(parent, child), parent an array and child an element,
\* a fragment, a string or undefined:
\*   the children of a fragment are appended one by one,
\*   a string that is not empty is added to a string the parent ends with,
\*     but only when the parent holds more than one item,
\*   an empty string is pushed onto an empty parent only.
RECURSIVE JsonMLAppendChild(_, _)
RECURSIVE JsonMLAppendChildren(_, _, _)
JsonMLAppendChild(parent, child) ==
    IF child.k = "arr"
    THEN IF child.c # <<>> /\ child.c[1] = JsString(<<>>)
         THEN JsonMLAppendChildren(parent, Tail(child.c), 1)
         ELSE JsArray(Append(parent.c, child))
    ELSE IF child.k = "undef" THEN parent
    ELSE IF child.s # <<>> /\ Len(parent.c) > 1
            /\ parent.c[Len(parent.c)].k = "str"
    THEN JsArray([parent.c EXCEPT
             ![Len(parent.c)] = JsString(@.s \o child.s)])
    ELSE IF child.s # <<>> \/ parent.c = <<>>
    THEN JsArray(Append(parent.c, child))
    ELSE parent

\* JsonML.appendChildren: the children from position i on
JsonMLAppendChildren(jml, children, i) ==
    IF i > Len(children) THEN jml
    ELSE JsonMLAppendChildren(JsonMLAppendChild(jml, children[i]),
                              children, i + 1)

\* JsonML.clone(jml, deep); a string is copied as a string
RECURSIVE JsonMLClone(_, _)
RECURSIVE JsonMLCloneChildren(_, _, _, _)
JsonMLClone(jml, deep) ==
    IF ~JsonMLIsElement(jml) THEN jml
    ELSE IF deep
    THEN JsonMLCloneChildren(
             JsArray(SubSeq(jml.c, 1,
                            IF JsonMLHasAttributes(jml) THEN 2 ELSE 1)),
             JsonMLGetChildren(jml), 1, deep)
    ELSE JsArray(SubSeq(jml.c, 1, IF JsonMLHasAttributes(jml) THEN 2 ELSE 1))

JsonMLCloneChildren(cloned, children, i, deep) ==
    IF i > Len(children) THEN cloned
    ELSE JsonMLCloneChildren(
             JsonMLAppendChild(cloned, JsonMLClone(children[i], deep)),
             children, i + 1, deep)

(* JMLDeltaAdapter: part_002 14-158, with the fragment adapter that        *)
(* DocumentJMLFactory.createFragmentAdapter('jml') returns, a               *)
(* JMLFragmentAdapter over the JsonML tree adapter (jmlpayload.js 45-71).  *)
(* A forest of tree nodes is held as the array of the nodes' data.         *)

NodeTag == <<"n", "o", "d", "e">>

ForestTag == <<"f", "o", "r", "e", "s", "t">>

ContextTag == <<"c", "o", "n", "t", "e", "x", "t">>

RemoveTag == <<"r", "e", "m", "o", "v", "e">>

InsertTag == <<"i", "n", "s", "e", "r", "t">>

PathKey == <<"p", "a", "t", "h">>

\* the root tag of the documents of new jmlpayload.JMLPayloadHandler('patch')
PatchTag == <<"p", "a", "t", "c", "h">>

\* the change types of the delta module
ChangeTypes == {"UPDATE_NODE_TYPE", "UPDATE_FOREST_TYPE"}

\* TYPE_TAGS[type], type a change type
TYPE_TAGS_Tag(type) ==
    CASE type = "UPDATE_NODE_TYPE" -> JsString(NodeTag)
      [] type = "UPDATE_FOREST_TYPE" -> JsString(ForestTag)
      [] OTHER -> JsUndefined

\* TYPE_TAGS[tag], tag a tag name: the change type under 'node' and
\* 'forest'.  The other two keys of TYPE_TAGS hold tag names, and any other
\* key holds nothing: neither is a change type.
TYPE_TAGS_Type(tag) ==
    CASE tag = NodeTag -> "UPDATE_NODE_TYPE"
      [] tag = ForestTag -> "UPDATE_FOREST_TYPE"
      [] OTHER -> "undefined"

\* new contextdelta.DetachedContextOperation(type, path, remove, insert,
\* head, tail): path, head and tail arrays of numbers, remove and insert
\* arrays of nodes
DetachedContextOperation(type, path, remove, insert, head, tail) ==
    [type |-> type, path |-> path, remove |-> remove, insert |-> insert,
     head |-> head, tail |-> tail]

\* formatFingerprint: parts.map(n => n ? n.toString(16) : '').join(';')
FormatFingerprint(parts) ==
    Join([i \in 1..Len(parts) |->
             IF JsTruthy(parts[i])
             THEN NumberToString(parts[i].n, 16)
             ELSE <<>>],
         ";")

\* op.path.join('/'): a number is joined as its decimal digits
FormatPath(path) ==
    Join([i \in 1..Len(path) |-> NumberToString(path[i].n, 10)], "/")

\* JMLFragmentAdapter.adapt(doc, nodes, deep): the clones of the nodes' data
\* from position i on, appended to result
RECURSIVE FragmentAdapt(_, _, _, _)
FragmentAdapt(nodes, deep, i, result) ==
    IF i > Len(nodes) THEN result
    ELSE FragmentAdapt(nodes, deep, i + 1,
             JsonMLAppendChild(result, JsonMLClone(nodes[i], deep)))

\* a context element: ['context'] with the formatted fingerprint appended
ContextElement(parts) ==
    JsonMLAppendChild(JsArray(<<JsString(ContextTag)>>),
                      JsString(FormatFingerprint(parts)))

\* a remove or insert element: [tag] with the adapted content appended
ContentElement(tag, content, deep) ==
    JsonMLAppendChildren(JsArray(<<JsString(tag)>>),
        FragmentAdapt(content.c, deep, 1, JsArray(<<>>)).c, 1)

\* constructOperationElement: if (content) { ... appendChild(element, ...) }
WithContent(element, tag, content, deep) ==
    IF JsTruthy(content)
    THEN JsonMLAppendChild(element, ContentElement(tag, content, deep))
    ELSE element

\* constructOperationElement(doc, op)
ConstructOperationElement(op) ==
    JsonMLAppendChild(
        WithContent(
            WithContent(
                JsonMLAppendChild(
                    JsonMLSetAttribute(JsArray(<<TYPE_TAGS_Tag(op.type)>>),
                        PathKey, JsString(FormatPath(op.path.c))),
                    ContextElement(op.head.c)),
                RemoveTag, op.remove, op.type # "UPDATE_NODE_TYPE"),
            InsertTag, op.insert, op.type # "UPDATE_NODE_TYPE"),
        ContextElement(op.tail.c))

\* populateDocument(doc, operations), from operation i on
RECURSIVE PopulateDocument(_, _, _)
PopulateDocument(document, operations, i) ==
    IF i > Len(operations) THEN document
    ELSE PopulateDocument(
             JsonMLAppendChild(document,
                               ConstructOperationElement(operations[i])),
             operations, i + 1)

\* nextElement(tag, domnodes): the node returned and the nodes left in
\* domnodes.  Elements with another tag are skipped; a node that is no
\* element ends the search and is returned.
RECURSIVE NextElement(_, _)
NextElement(tag, domnodes) ==
    IF domnodes = <<>> THEN [node |-> JsUndefined, rest |-> <<>>]
    ELSE IF ~JsTruthy(Head(domnodes))
    THEN [node |-> Head(domnodes), rest |-> Tail(domnodes)]
    ELSE IF ~JsonMLIsElement(Head(domnodes))
    THEN [node |-> Head(domnodes), rest |-> Tail(domnodes)]
    ELSE IF JsonMLGetTagName(Head(domnodes)) = tag
    THEN [node |-> Head(domnodes), rest |-> Tail(domnodes)]
    ELSE NextElement(tag, Tail(domnodes))

\* nextText(domnodes): the first node that is no element
RECURSIVE NextText(_)
NextText(domnodes) ==
    IF domnodes = <<>> THEN JsUndefined
    ELSE IF ~JsTruthy(Head(domnodes)) THEN Head(domnodes)
    ELSE IF ~JsonMLIsElement(Head(domnodes)) THEN Head(domnodes)
    ELSE NextText(Tail(domnodes))

\* a call that ended in an exception
Threw == [thrown |-> TRUE, value |-> JsUndefined]

\* the callback of parseContext, after component = component.trim():
\* nothing is returned for an empty component
ParseTrimmed(component) ==
    IF Len(component) # 0 THEN ParseInt(component, 16) ELSE JsUndefined

\* text.split(';').map(...), parts being the components
ParseComponents(parts) ==
    JsArray([i \in 1..Len(parts) |-> ParseTrimmed(Trim(parts[i]))])

\* parseContext after nextText: nothing is returned when there is no text
ParseText(text) ==
    IF JsTruthy(text) THEN ParseComponents(Split(text.s, ";"))
    ELSE JsUndefined

\* parseContext(node); getChildren throws unless node is an element
ParseContext(node) ==
    IF ~JsonMLIsElement(node) THEN Threw
    ELSE [thrown |-> FALSE,
          value |-> ParseText(NextText(JsonMLGetChildren(node)))]

\* path.split('/').map(c => parseInt(c, 16)) (a faulty variant: the
\* components are read as hexadecimal)
ParsePathHex(path) ==
    IF path = <<>> THEN JsArray(<<>>)
    ELSE JsArray([i \in 1..Len(Split(path, "/")) |->
                     ParseInt(Split(path, "/")[i], 16)])

\* adaptOperation: path === '' ? [] : path.split('/').map(c => parseInt(c, 10))
ParsePath(path) ==
    IF path = <<>> THEN JsArray(<<>>)
    ELSE JsArray([i \in 1..Len(Split(path, "/")) |->
                     ParseInt(Split(path, "/")[i], 10)])

\* JMLFragmentAdapter.importFragment(jmlnodes): one node per JsonML node
ImportJmlNodes(jmlnodes) == JsArray(jmlnodes)

\* adaptOperation, from the last nextElement('context', children) on
AdaptTail(type, path, remove, insert, head, found) ==
    IF ParseContext(found.node).thrown THEN Threw
    ELSE [thrown |-> FALSE,
          value |-> DetachedContextOperation(type, path, remove, insert,
                        head, ParseContext(found.node).value)]

\* adaptOperation, from nextElement('insert', children) on
AdaptInsert(type, path, remove, head, found) ==
    IF ~JsonMLIsElement(found.node) THEN Threw
    ELSE AdaptTail(type, path, remove,
             ImportJmlNodes(JsonMLGetChildren(found.node)), head,
             NextElement(ContextTag, found.rest))

\* adaptOperation, from nextElement('remove', children) on
AdaptRemove(type, path, head, found) ==
    IF ~JsonMLIsElement(found.node) THEN Threw
    ELSE AdaptInsert(type, path,
             ImportJmlNodes(JsonMLGetChildren(found.node)), head,
             NextElement(InsertTag, found.rest))

\* adaptOperation, from the first nextElement('context', children) on
AdaptHead(type, path, found) ==
    IF ParseContext(found.node).thrown THEN Threw
    ELSE AdaptRemove(type, path, ParseContext(found.node).value,
             NextElement(RemoveTag, found.rest))

\* adaptOperation(element, type) accepting every type (a faulty variant:
\* the switch on the type is left out)
AdaptOperationAnyType(element, type) ==
    IF ~JsonMLIsElement(element) THEN Threw
    ELSE IF JsonMLGetAttribute(element, PathKey).k # "str" THEN Threw
    ELSE AdaptHead(type, ParsePath(JsonMLGetAttribute(element, PathKey).s),
             NextElement(ContextTag, JsonMLGetChildren(element)))

\* adaptOperation(element, type): getAttribute throws unless element is an
\* element, a type that is no change type is rejected, and path.split
\* throws unless the path attribute is a string
AdaptOperation(element, type) ==
    IF ~JsonMLIsElement(element) THEN Threw
    ELSE IF type \notin ChangeTypes THEN Threw
    ELSE IF JsonMLGetAttribute(element, PathKey).k # "str" THEN Threw
    ELSE AdaptHead(type, ParsePath(JsonMLGetAttribute(element, PathKey).s),
             NextElement(ContextTag, JsonMLGetChildren(element)))

\* adaptDocument: the callback of eachChild from child i on.  An exception
\* of adaptOperation ends the call: nothing is returned, pushed being the
\* operations adapted before it.
RECURSIVE AdaptEachChild(_, _, _)
RECURSIVE AdaptPush(_, _, _, _)
AdaptEachChild(children, i, operations) ==
    IF i > Len(children)
    THEN [thrown |-> FALSE, value |-> JsArray(operations),
          pushed |-> operations]
    ELSE AdaptPush(children, i, operations,
             AdaptOperation(children[i],
                 IF JsonMLIsElement(children[i])
                 THEN TYPE_TAGS_Type(JsonMLGetTagName(children[i]))
                 ELSE "undefined"))

AdaptPush(children, i, operations, made) ==
    IF made.thrown
    THEN [thrown |-> TRUE, value |-> JsUndefined, pushed |-> operations]
    ELSE AdaptEachChild(children, i + 1, Append(operations, made.value))

\* JMLDeltaAdapter.prototype.adaptDocument(doc); eachChild throws unless doc
\* is an element
DeltaAdaptDocument(document) ==
    IF ~JsonMLIsElement(document)
    THEN [thrown |-> TRUE, value |-> JsUndefined, pushed |-> <<>>]
    ELSE AdaptEachChild(JsonMLGetChildren(document), 1, <<>>)

----------------------------------------------------------------------------
(* SpecWire: a delta is written into a patch document and the patch is     *)
(* read back, possibly after another writer added elements to it           *)

\* operations of a delta
MaxOperations == 2

\* elements another writer adds to a patch
MaxForeign == 1

Numbers(seq) == JsArray([i \in 1..Len(seq) |-> JsNumber(seq[i])])

\* what an operation is anchored by, <<path, head, tail>>: the paths are
\* the root, a child of the root, a child with a two-digit index and a
\* grandchild; the fingerprints are without entries, with one entry, all
\* zero, and with zero entries at either end
WireAnchors ==
    {<<Numbers(<<>>), Numbers(<<>>), Numbers(<<255>>)>>,
     <<Numbers(<<0>>), Numbers(<<0>>), Numbers(<<10, 4011>>)>>,
     <<Numbers(<<12>>), Numbers(<<0, 0>>), Numbers(<<1, 0>>)>>,
     <<Numbers(<<1, 12>>), Numbers(<<0, 4011>>), Numbers(<<4011, 0, 10>>)>>}

\* a node update replaces an element by a text; a forest update removes two
\* texts and inserts an element with a child
WireOperation(type, anchor) ==
    IF type = "UPDATE_NODE_TYPE"
    THEN DetachedContextOperation(type, anchor[1],
             JsArray(<<JsArray(<<JsString(<<"b">>), JsString(<<"x">>)>>)>>),
             JsArray(<<JsString(<<"a">>)>>),
             anchor[2], anchor[3])
    ELSE DetachedContextOperation(type, anchor[1],
             JsArray(<<JsString(<<"a">>), JsString(<<"b">>)>>),
             JsArray(<<JsArray(<<JsString(<<"b">>), JsString(<<"x">>)>>)>>),
             anchor[2], anchor[3])

WireOperations ==
    {WireOperation(type, anchor) : type \in ChangeTypes, anchor \in WireAnchors}

\* tags of another writer
ForeignTags == {<<"m", "o", "v", "e">>, ContextTag}

\* an element of another writer: an operation element under another tag,
\* or an element with nothing but the tag
ForeignElements ==
    {JsArray(<<JsString(tag)>>) : tag \in ForeignTags}
    \cup {JsArray([ConstructOperationElement(
                       WireOperation("UPDATE_FOREST_TYPE",
                           <<Numbers(<<0>>), Numbers(<<1>>),
                             Numbers(<<1>>)>>)).c
                   EXCEPT ![1] = JsString(tag)]) : tag \in ForeignTags}

\* the elements of a patch that are no operation elements
Foreign(document) ==
    {i \in 1..Len(JsonMLGetChildren(document)) :
        JsonMLGetTagName(JsonMLGetChildren(document)[i])
            \notin {NodeTag, ForestTag}}

InitWire ==
    /\ tree = <<>>
    /\ heap = <<>>
    /\ doc = Undefined
    /\ orig = <<>>
    /\ hunks = <<>>
    /\ session = NoSession
    /\ last = NoCall
    /\ docindex = NoDocumentOrderIndex
    /\ genindex = NoGenerationIndex
    /\ hashing = NoHashing
    /\ delta = NoDelta
    /\ patch = NoPatch
    /\ cli = NoRun

\* the editor emits one more operation
EmitOperation ==
    /\ patch = NoPatch
    /\ Len(delta) < MaxOperations
    /\ \E op \in WireOperations : delta' = Append(delta, op)
    /\ last' = Call("emit", 0, 0, FALSE, <<>>)
    /\ UNCHANGED <<tree, heap, doc, orig, hunks, session, docindex, genindex,
                   hashing, patch, cli>>

\* doc = payloadHandler.createDocument();
\* deltaAdapter.populateDocument(doc, operations)
WritePatch ==
    /\ patch = NoPatch
    /\ patch' = PopulateDocument(JsArray(<<JsString(PatchTag)>>), delta, 1)
    /\ last' = Call("populateDocument", 0, 0, FALSE, <<>>)
    /\ UNCHANGED <<tree, heap, doc, orig, hunks, session, docindex, genindex,
                   hashing, delta, cli>>

\* another writer appends an element to the patch
WriteForeign ==
    /\ patch # NoPatch
    /\ Cardinality(Foreign(patch)) < MaxForeign
    /\ \E element \in ForeignElements :
          patch' = JsArray(Append(patch.c, element))
    /\ last' = Call("foreign", 0, 0, FALSE, <<>>)
    /\ UNCHANGED <<tree, heap, doc, orig, hunks, session, docindex, genindex,
                   hashing, delta, cli>>

\* the call deltaAdapter.adaptDocument(patch) as last records it: before
\* holds the operations adapted when the call ended
Adapted(document, got) ==
    [Returned("adaptDocument", 0, document, got.thrown, got.value)
        EXCEPT !.before = got.pushed]

\* operations = deltaAdapter.adaptDocument(patch)
ReadPatch ==
    /\ patch # NoPatch
    /\ last' = Adapted(patch, DeltaAdaptDocument(patch))
    /\ UNCHANGED <<tree, heap, doc, orig, hunks, session, docindex, genindex,
                   hashing, delta, patch, cli>>

NextWire == EmitOperation \/ WritePatch \/ WriteForeign \/ ReadPatch

SpecWire == InitWire /\ [][NextWire]_vars

----------------------------------------------------------------------------
(* Claims on the patch wire format *)

\* the operation elements of the patch, in order
OperationElements == JsonMLGetChildren(patch)

\* what parseContext returned is an array that holds the entries of the
\* fingerprint f, a zero entry read back as the number 0
Decodes(f, got) ==
    /\ ~got.thrown
    /\ got.value.k = "arr"
    /\ Len(got.value.c) = Len(f.c)
    /\ \A j \in 1..Len(f.c) : got.value.c[j] = f.c[j]

\* C21: the fingerprint wire encoding round-trips.  For every operation of
\* the delta a patch was written from, parseContext applied to the head
\* context element of its operation element returns an array of the length
\* of the head fingerprint with the same entries, and likewise for the tail
\* context element and the tail fingerprint; this includes entries equal to
\* 0, which are written as empty and are to be read back as 0.
C21_FingerprintRoundTrip ==
    patch # NoPatch =>
        \A i \in 1..Len(delta) :
            /\ Decodes(delta[i].head,
                   ParseContext(Head(JsonMLGetChildren(OperationElements[i]))))
            /\ Decodes(delta[i].tail,
                   ParseContext(JsonMLGetChildren(OperationElements[i])[
                       Len(JsonMLGetChildren(OperationElements[i]))]))

\* the decimal digits of the child indices the paths hold
Decimal(index) ==
    CASE index = 0 -> <<"0">>
      [] index = 1 -> <<"1">>
      [] index = 12 -> <<"1", "2">>

\* the child indices from position i on, each after a '/' but the first
RECURSIVE Slashed(_, _)
Slashed(path, i) ==
    IF i > Len(path) THEN <<>>
    ELSE (IF i = 1 THEN <<>> ELSE <<"/">>)
         \o Decimal(path[i].n) \o Slashed(path, i + 1)

\* the tag names of the children of an element, in order
ChildTags(element) ==
    [j \in 1..Len(JsonMLGetChildren(element)) |->
        IF JsonMLIsElement(JsonMLGetChildren(element)[j])
        THEN JsonMLGetTagName(JsonMLGetChildren(element)[j])
        ELSE <<>>]

\* C22: the patch wire format.  For every operation of the delta a patch
\* was written from, the operation element has the tag node for a node
\* update and forest for a forest update, a path attribute that holds the
\* child indices in decimal joined by '/' (the empty string for the root
\* path), and the four children context, remove, insert, context in this
\* order; and when the patch is read, adaptOperation returns for that
\* element an operation of the same type with the same path of integers.
C22_PatchWireFormat ==
    patch # NoPatch =>
        \A i \in 1..Len(delta) :
            /\ JsonMLIsElement(OperationElements[i])
            /\ JsonMLGetTagName(OperationElements[i])
                   = (IF delta[i].type = "UPDATE_NODE_TYPE"
                      THEN NodeTag ELSE ForestTag)
            /\ JsonMLGetAttribute(OperationElements[i], PathKey)
                   = JsString(Slashed(delta[i].path.c, 1))
            /\ ChildTags(OperationElements[i])
                   = <<ContextTag, RemoveTag, InsertTag, ContextTag>>
            /\ last.op = "adaptDocument" =>
                   /\ Len(last.before) >= i
                   /\ last.before[i].type = delta[i].type
                   /\ last.before[i].path = delta[i].path

\* a patch written from a node update at the root and a forest update at
\* path 1/12 has been read
C22_Witness ==
    /\ patch # NoPatch
    /\ last.op = "adaptDocument"
    /\ ~last.thrown
    /\ Len(delta) = 2
    /\ delta[1].type = "UPDATE_NODE_TYPE"
    /\ delta[1].path = Numbers(<<>>)
    /\ delta[2].type = "UPDATE_FOREST_TYPE"
    /\ delta[2].path = Numbers(<<1, 12>>)
    /\ Len(last.value.c) = 2

\* the position of the first element of a patch that is no operation element
FirstForeign(document) ==
    CHOOSE i \in Foreign(document) : \A j \in Foreign(document) : i <= j

\* C23: loading a patch whose root holds an element with a tag other than
\* node or forest fails.  adaptDocument ends in the exception raised for the
\* first such element and returns no operation list, however many operation
\* elements precede it: these, and no others, were adapted when it ended.
C23_UnsupportedTagRejected ==
    last.op = "adaptDocument" =>
        (Foreign(last.arg) # {} =>
            /\ last.thrown
            /\ last.value = JsUndefined
            /\ Len(last.before) = FirstForeign(last.arg) - 1)

\* a patch read with two operation elements before an operation element
\* that was given another tag
C23_Witness ==
    /\ last.op = "adaptDocument"
    /\ Foreign(last.arg) = {3}
    /\ Len(JsonMLGetChildren(last.arg)[3].c) > 2
    /\ last.thrown

----------------------------------------------------------------------------
(* SpecDiff: a run of the diff command, part_000.                           *)
(*                                                                         *)
(* cli holds the options object of main, the position main has reached     *)
(* (pc), whether fs.readFileSync was called (loading), whether the diff    *)
(* was computed (diffed), and the exit code once the process has ended.    *)
(* The files are taken to be well-formed: parsing a file of a supported    *)
(* type succeeds.                                                          *)

\* a file argument: the path given and whether a file exists there
File(name, exists) == [given |-> TRUE, name |-> name, exists |-> exists]

\* a file argument that was not given: options.origfile stays undefined
NoFile == [given |-> FALSE, name |-> "", exists |-> FALSE]

\* the arguments FILE1 and FILE2 are drawn from
FileArguments ==
    {NoFile} \cup
    {File(name, exists) :
        name \in {"a.json", "b.json", "c.xml", "d.svg", "e.txt"},
        exists \in BOOLEAN}

\* mime.lookup(filepath), by the extension of the path
MimeLookup(name) ==
    CASE name \in {"a.json", "b.json"} -> "application/json"
      [] name = "c.xml" -> "application/xml"
      [] name = "d.svg" -> "image/svg+xml"
      [] name = "e.txt" -> "text/plain"
      [] OTHER -> "application/octet-stream"

\* mimetype.slice(-4) === '+xml'
EndsWithXml(mimetype) == mimetype \in {"image/svg+xml"}

\* getPayloadType(mimetype)
GetPayloadType(mimetype) ==
    IF mimetype = "application/json" THEN "json"
    ELSE IF mimetype = "application/xml" \/ EndsWithXml(mimetype) THEN "xml"
    ELSE "undefined"

\* createPayloadHandler(type): undefined unless the type is json or xml
CreatePayloadHandler(type) ==
    CASE type = "json" -> "JSONPayloadHandler"
      [] type = "xml" -> "XMLPayloadHandler"
      [] OTHER -> "undefined"

\* the exit codes of a process that ends in an uncaught exception: 1, and 8
\* in the node versions that still have path.existsSync
UncaughtExitCodes == {1, 8}

\* options.mimetype = checkfile(description, filepath, wantmime): the run
\* after the call; next is where main continues when checkfile returns
Checkfile(run, file, wantmime, next) ==
    IF ~file.given \/ ~file.exists
    THEN [run EXCEPT !.pc = "exited", !.exit = 1]
    ELSE IF wantmime # "undefined" /\ MimeLookup(file.name) # wantmime
    THEN [run EXCEPT !.pc = "exited", !.exit = 1]
    ELSE [run EXCEPT !.pc = next, !.mimetype = MimeLookup(file.name)]

\* loadFile(description, filepath, encoding, payloadhandler, dataadapter):
\* the file is read, then payloadhandler.parseString is called, which
\* throws a TypeError when there is no payload handler; nothing catches it
LoadFile(run, next, code) ==
    IF run.documentPayloadHandler = "undefined"
    THEN [run EXCEPT !.loading = TRUE, !.pc = "exited", !.exit = code]
    ELSE [run EXCEPT !.loading = TRUE, !.pc = next]

InitDiff == InitWire

\* parser.parse(process.ARGV)
ParseArguments ==
    /\ cli = NoRun
    /\ \E origfile \in FileArguments, changedfile \in FileArguments,
          patchtype \in {"xml", "json"} :
          cli' = [pc |-> "checkOriginal", patchtype |-> patchtype,
                  origfile |-> origfile, changedfile |-> changedfile,
                  mimetype |-> "undefined",
                  documentPayloadType |-> "undefined",
                  documentPayloadHandler |-> "undefined",
                  unsupported |-> FALSE,
                  loading |-> FALSE, diffed |-> FALSE, exit |-> 0]
    /\ UNCHANGED <<tree, heap, doc, orig, hunks, session, last, docindex,
                   genindex, hashing, delta, patch>>

\* options.mimetype = checkfile('original file', options.origfile,
\*                              options.mimetype)
CheckOriginal ==
    /\ cli.pc = "checkOriginal"
    /\ cli' = Checkfile(cli, cli.origfile, cli.mimetype, "checkChanged")
    /\ UNCHANGED <<tree, heap, doc, orig, hunks, session, last, docindex,
                   genindex, hashing, delta, patch>>

\* options.mimetype = checkfile('changed file', options.changedfile,
\*                              options.mimetype)
CheckChanged ==
    /\ cli.pc = "checkChanged"
    /\ cli' = Checkfile(cli, cli.changedfile, cli.mimetype, "payload")
    /\ UNCHANGED <<tree, heap, doc, orig, hunks, session, last, docindex,
                   genindex, hashing, delta, patch>>

\* the payload type, the payload handler and the tree adapter are chosen;
\* 'This file type is not supported by djdiff' is logged when there is no
\* payload type or no payload handler, and main goes on
DetectPayload ==
    /\ cli.pc = "payload"
    /\ cli' = [cli EXCEPT
           !.pc = "loadOriginal",
           !.documentPayloadType = GetPayloadType(cli.mimetype),
           !.documentPayloadHandler =
               CreatePayloadHandler(GetPayloadType(cli.mimetype)),
           !.unsupported =
               CreatePayloadHandler(GetPayloadType(cli.mimetype))
                   = "undefined"]
    /\ UNCHANGED <<tree, heap, doc, orig, hunks, session, last, docindex,
                   genindex, hashing, delta, patch>>

\* tree1 = loadFile('original file', ...)
LoadOriginal ==
    /\ cli.pc = "loadOriginal"
    /\ \E code \in UncaughtExitCodes :
          cli' = LoadFile(cli, "loadChanged", code)
    /\ UNCHANGED <<tree, heap, doc, orig, hunks, session, last, docindex,
                   genindex, hashing, delta, patch>>

\* tree2 = loadFile('changed file', ...)
LoadChanged ==
    /\ cli.pc = "loadChanged"
    /\ \E code \in UncaughtExitCodes : cli' = LoadFile(cli, "diff", code)
    /\ UNCHANGED <<tree, heap, doc, orig, hunks, session, last, docindex,
                   genindex, hashing, delta, patch>>

\* the trees are matched, the patch is generated and logged, saveFile does
\* nothing, and main returns
Diff ==
    /\ cli.pc = "diff"
    /\ cli' = [cli EXCEPT !.pc = "exited", !.diffed = TRUE, !.exit = 0]
    /\ UNCHANGED <<tree, heap, doc, orig, hunks, session, last, docindex,
                   genindex, hashing, delta, patch>>

NextDiff ==
    \/ ParseArguments
    \/ CheckOriginal
    \/ CheckChanged
    \/ DetectPayload
    \/ LoadOriginal
    \/ LoadChanged
    \/ Diff

SpecDiff == InitDiff /\ [][NextDiff]_vars

\* the arguments of a run are invalid: a file argument is missing or names
\* no file, the two files differ in MIME type, or the MIME type is none of
\* application/json, application/xml and *+xml
InvalidArguments(run) ==
    \/ ~run.origfile.given
    \/ ~run.origfile.exists
    \/ ~run.changedfile.given
    \/ ~run.changedfile.exists
    \/ MimeLookup(run.origfile.name) # MimeLookup(run.changedfile.name)
    \/ MimeLookup(run.origfile.name)
           \notin {"application/json", "application/xml", "image/svg+xml"}

\* C25: the diff front-end exits with code 1 on invalid arguments or an
\* unsupported MIME type.  A run whose arguments are invalid never reaches
\* file loading or diffing, and when it has ended its exit code is 1.
C25_InvalidRunExitsWithOne ==
    cli # NoRun =>
        (InvalidArguments(cli) =>
            /\ ~cli.loading
            /\ ~cli.diffed
            /\ cli.pc = "exited" => cli.exit = 1)

====
